---------------------------- MODULE Spec2Model ----------------------------
(***************************************************************************)
(* porthole: discovery of Kubernetes services, endpoint resolution through *)
(* the EndpointSlice API with fallback to the legacy Endpoints API, health *)
(* aggregation, and the flattened views written by the JSON and nginx      *)
(* generators.                                                             *)
(*                                                                         *)
(* Conventions of the model                                                *)
(*   - a name (namespace, service, port name, pattern) is a sequence of    *)
(*     one-character strings, so that concatenation and search are         *)
(*     computed as the code computes them;                                 *)
(*   - an Optional value is None (the empty tuple) or Some(x) (a 1-tuple); *)
(*   - a call that can raise returns [raised, exc, val];                   *)
(*   - an answer of the cluster API is [kind, status, body], with kind     *)
(*     "ok", "api_error" (kubernetes ApiException with an HTTP status) or  *)
(*     "error" (any other exception, e.g. a connection failure).           *)
(* Fields of the service model that no operation below reads (labels,      *)
(* annotations, selector, external_ips, created_at, target_port,           *)
(* node_port, http_response_code, redirect_url) are left out.              *)
(***************************************************************************)
EXTENDS Integers, Sequences, FiniteSets, TLC

VARIABLES
    config,                \* Config: skip_namespaces, include_headless_services, frontend_patterns
    pc,                    \* position of the driver (generate / watch) and of discover_services
    namespaces,            \* discover_services: namespaces
    namespaces_to_scan,    \* discover_services: namespaces_to_scan
    ns_idx,                \* index of the for loop over namespaces_to_scan
    all_services,          \* discover_services: all_services
    scanned_namespaces,    \* discover_services: scanned_namespaces
    n_items,               \* _discover_services_in_namespace: len(services.items)
    item_idx,              \* index of the for loop over services.items
    cur_service,           \* its loop variable: the raw service read last (None before)
    discovered_services,   \* _discover_services_in_namespace: discovered_services
    result,                \* the ServiceDiscoveryResult returned (None before)
    json_data,             \* services.json as written by generate_json_data (None before)
    nginx_config,          \* NginxConfig.locations as built by _build_nginx_config (None before)
    api_calls,             \* the cluster API calls the last step of the cycle issued, with their status
    call,                  \* arguments of the function under study (pure-function specifications)
    ret                    \* its return value

vars == <<config, pc, namespaces, namespaces_to_scan, ns_idx, all_services,
          scanned_namespaces, n_items, item_idx, cur_service, discovered_services, result,
          json_data, nginx_config, api_calls, call, ret>>

-----------------------------------------------------------------------------
(* Bounds of the model *)

\* longest address list of a slice endpoint / legacy subset
MaxAddrs == 1
\* most endpoints in one EndpointSlice
MaxEps == 1

(* Program constants *)
MIN_PORT == 1
MAX_PORT == 65535

-----------------------------------------------------------------------------
(* Python values *)

None == <<>>
Some(x) == <<x>>
IsNone(o) == Len(o) = 0
Get(o) == o[1]

Ok(v) == [raised |-> FALSE, exc |-> "", val |-> v]
Raise(e) == [raised |-> TRUE, exc |-> e, val |-> <<>>]

ApiOk(b) == [kind |-> "ok", status |-> 200, body |-> b]
ApiError(s) == [kind |-> "api_error", status |-> s, body |-> <<>>]
OtherError == [kind |-> "error", status |-> 0, body |-> <<>>]

\* the exception a failed API call raises
ExcOf(resp) == IF resp.kind = "api_error" THEN "ApiException" ELSE "Exception"

RECURSIVE Flatten(_)
Flatten(ss) == IF Len(ss) = 0 THEN <<>> ELSE Head(ss) \o Flatten(Tail(ss))

RECURSIVE SeqToSet(_)
SeqToSet(s) == IF Len(s) = 0 THEN {} ELSE {Head(s)} \cup SeqToSet(Tail(s))

\* sequences over S of length 0..n
RECURSIVE SeqsUpTo(_, _)
SeqsUpTo(S, n) ==
    IF n = 0 THEN {<<>>}
    ELSE LET shorter == SeqsUpTo(S, n - 1)
         IN shorter \cup {Append(s, x) : s \in {t \in shorter : Len(t) = n - 1}, x \in S}

Prefix(s, n) == SubSeq(s, 1, n)

-----------------------------------------------------------------------------
(* models.py: ServicePort, ServiceEndpoint *)

\* (mutant) only the lower limit is checked
validate_port_lower_limit_only(v) == MIN_PORT <= v

\* ServicePort.validate_port / ServiceEndpoint.validate_port
validate_port(v) == MIN_PORT <= v /\ v <= MAX_PORT

\* ServiceEndpoint(ip, port, ready, hostname): ready is Optional here, and
\* pydantic rejects None for a bool field as it rejects a port out of range.
ServiceEndpointValid(c) == validate_port(c.port) /\ ~IsNone(c.ready)

ServiceEndpoint(c) ==
    [ip |-> c.ip, port |-> c.port, ready |-> Get(c.ready), hostname |-> c.hostname]

\* the list of ServiceEndpoint built from candidate constructor arguments, in
\* order; the first invalid one raises ValidationError and nothing is returned
BuildEndpoints(cands) ==
    IF \A i \in 1..Len(cands) : ServiceEndpointValid(cands[i])
    THEN Ok([i \in 1..Len(cands) |-> ServiceEndpoint(cands[i])])
    ELSE Raise("ValidationError")

-----------------------------------------------------------------------------
(* service_discovery.py: endpoint resolution *)

\* (mutant) no endpoint when the slice or subset declares no port
FanOut_declared_ports_only(service, ip, hostname, ready, ports) ==
    [i \in 1..Len(ports) |->
        [ip |-> ip, port |-> ports[i].port, ready |-> ready, hostname |-> hostname]]

\* one candidate per port of `ports`, or per service port if `ports` is empty
FanOut(service, ip, hostname, ready, ports) ==
    LET ps == IF Len(ports) > 0 THEN ports ELSE service.ports
    IN [i \in 1..Len(ps) |->
            [ip |-> ip, port |-> ps[i].port, ready |-> ready, hostname |-> hostname]]

SliceEndpointCands(service, slice_obj, endpoint) ==
    IF Len(endpoint.addresses) = 0 THEN <<>>
    ELSE LET ready == IF IsNone(endpoint.conditions) THEN Some(TRUE)
                      ELSE Get(endpoint.conditions).ready
         IN Flatten([a \in 1..Len(endpoint.addresses) |->
                FanOut(service, endpoint.addresses[a], endpoint.hostname, ready,
                       slice_obj.ports)])

SliceCands(service, slice_obj) ==
    Flatten([e \in 1..Len(slice_obj.endpoints) |->
                SliceEndpointCands(service, slice_obj, slice_obj.endpoints[e])])

_get_endpoint_slices(service, resp) ==
    IF resp.kind # "ok" THEN Raise(ExcOf(resp))
    ELSE BuildEndpoints(Flatten([s \in 1..Len(resp.body) |->
                                    SliceCands(service, resp.body[s])]))

SubsetCands(service, subset) ==
    Flatten([a \in 1..Len(subset.addresses) |->
                FanOut(service, subset.addresses[a].ip, subset.addresses[a].hostname,
                       Some(TRUE), subset.ports)])
    \o
    Flatten([a \in 1..Len(subset.not_ready_addresses) |->
                FanOut(service, subset.not_ready_addresses[a].ip,
                       subset.not_ready_addresses[a].hostname,
                       Some(FALSE), subset.ports)])

_get_endpoints_legacy(service, resp) ==
    IF resp.kind # "ok" THEN Raise(ExcOf(resp))
    ELSE BuildEndpoints(Flatten([s \in 1..Len(resp.body) |->
                                    SubsetCands(service, resp.body[s])]))

\* (mutant) `except Exception` catches whatever is raised
Catches_all_by_exception(clause, r) ==
    r.raised /\ (clause = "Exception" \/ r.exc = clause)

\* `except <clause>`: does the handler catch what r raised?  SystemExit and
\* KeyboardInterrupt derive from BaseException, not from Exception.
Catches(clause, r) ==
    /\ r.raised
    /\ \/ r.exc = clause
       \/ clause = "Exception" /\ r.exc \notin {"SystemExit", "KeyboardInterrupt"}

\* the endpoints list after the EndpointSlice attempt (except Exception: log)
AfterSlices(service, sliceResp) ==
    LET s == _get_endpoint_slices(service, sliceResp)
    IN IF s.raised THEN <<>> ELSE s.val

\* (mutant) the legacy API is queried whatever the EndpointSlice attempt gave
LegacyQueried_always(service, sliceResp) == TRUE

\* `if not endpoints`: the legacy API is queried
LegacyQueried(service, sliceResp) == Len(AfterSlices(service, sliceResp)) = 0

\* (mutant) both handlers are `except ApiException`
_get_service_endpoints_api_errors_only(service, sliceResp, legacyResp) ==
    LET s == _get_endpoint_slices(service, sliceResp)
    IN IF s.raised /\ ~Catches("ApiException", s) THEN s
       ELSE LET endpoints == IF s.raised THEN <<>> ELSE s.val
            IN IF Len(endpoints) = 0
               THEN LET l == _get_endpoints_legacy(service, legacyResp)
                    IN IF l.raised
                       THEN (IF Catches("ApiException", l) THEN Ok(endpoints) ELSE l)
                       ELSE Ok(endpoints \o l.val)
               ELSE Ok(endpoints)

\* (mutant) the legacy API is queried only when the EndpointSlice call
\* succeeded and found nothing
_get_service_endpoints_no_fallback_on_error(service, sliceResp, legacyResp) ==
    LET s == _get_endpoint_slices(service, sliceResp)
    IN IF s.raised THEN Ok(<<>>)
       ELSE IF Len(s.val) = 0
            THEN LET l == _get_endpoints_legacy(service, legacyResp)
                 IN IF l.raised THEN Ok(<<>>) ELSE Ok(l.val)
            ELSE Ok(s.val)

_get_service_endpoints(service, sliceResp, legacyResp) ==
    LET s == _get_endpoint_slices(service, sliceResp)
    IN IF s.raised /\ ~Catches("Exception", s) THEN s
       ELSE LET endpoints == IF s.raised THEN <<>> ELSE s.val
            IN IF LegacyQueried(service, sliceResp)
               THEN LET l == _get_endpoints_legacy(service, legacyResp)
                    IN IF l.raised
                       THEN (IF Catches("Exception", l) THEN Ok(endpoints) ELSE l)
                       ELSE Ok(endpoints \o l.val)
               ELSE Ok(endpoints)

\* (mutant) healthy only when every endpoint is ready
_determine_endpoint_status_all_ready(endpoints) ==
    IF Len(endpoints) = 0 THEN "unhealthy"
    ELSE IF Cardinality({i \in 1..Len(endpoints) : endpoints[i].ready})
               = Len(endpoints)
         THEN "healthy"
    ELSE "unhealthy"

\* (mutant) no endpoints: the status stays at the field's default
_determine_endpoint_status_default_when_empty(endpoints) ==
    IF Len(endpoints) = 0 THEN "unknown"
    ELSE IF Cardinality({i \in 1..Len(endpoints) : endpoints[i].ready}) = 0
         THEN "unhealthy"
    ELSE "healthy"

_determine_endpoint_status(endpoints) ==
    IF Len(endpoints) = 0 THEN "unhealthy"
    ELSE LET ready_count == Cardinality({i \in 1..Len(endpoints) : endpoints[i].ready})
         IN IF ready_count = 0 THEN "unhealthy"
            ELSE IF ready_count = Len(endpoints) THEN "healthy"
            ELSE "healthy"

-----------------------------------------------------------------------------
(* Strings as character sequences *)

Digits == <<"0", "1", "2", "3", "4", "5", "6", "7", "8", "9">>

UpperCase == <<"A", "B", "C", "D", "E", "F", "G", "H", "I", "J", "K", "L", "M",
               "N", "O", "P", "Q", "R", "S", "T", "U", "V", "W", "X", "Y", "Z">>

LowerCase == <<"a", "b", "c", "d", "e", "f", "g", "h", "i", "j", "k", "l", "m",
               "n", "o", "p", "q", "r", "s", "t", "u", "v", "w", "x", "y", "z">>

\* the characters of the model in code-point order
AsciiOrder == <<"-", ".", "/">> \o Digits \o <<":">> \o UpperCase \o <<"_">> \o LowerCase

Code(c) == CHOOSE i \in 1..Len(AsciiOrder) : AsciiOrder[i] = c

\* Python's str < str
RECURSIVE StrLess(_, _)
StrLess(a, b) ==
    IF Len(b) = 0 THEN FALSE
    ELSE IF Len(a) = 0 THEN TRUE
    ELSE IF Head(a) = Head(b) THEN StrLess(Tail(a), Tail(b))
    ELSE Code(Head(a)) < Code(Head(b))

\* str(int) of a non-negative integer
RECURSIVE IntToStr(_)
IntToStr(n) ==
    IF n < 10 THEN <<Digits[n + 1]>>
    ELSE IntToStr(n \div 10) \o <<Digits[(n % 10) + 1]>>

-----------------------------------------------------------------------------
(* models.py: KubernetesService *)

ServiceTypes == {"ClusterIP", "NodePort", "LoadBalancer", "ExternalName"}

\* model_validator(mode="before") of KubernetesService
detect_frontend(is_frontend) ==
    IF ~IsNone(is_frontend) THEN Get(is_frontend) ELSE FALSE

\* KubernetesService(...): validate_name, validate_namespace, detect_frontend
KubernetesService(name, namespace, service_type, cluster_ip, ports, is_frontend) ==
    IF Len(name) = 0 \/ Len(namespace) = 0 THEN Raise("ValidationError")
    ELSE Ok([name |-> name,
             namespace |-> namespace,
             service_type |-> service_type,
             cluster_ip |-> cluster_ip,
             ports |-> ports,
             endpoints |-> <<>>,
             endpoint_status |-> "unknown",
             is_frontend |-> detect_frontend(is_frontend)])

display_name(service) == service.namespace \o <<"/">> \o service.name

\* (mutant) every service that was not found unhealthy has valid endpoints
has_valid_endpoints_unless_unhealthy(service) ==
    service.endpoint_status # "unhealthy"

has_valid_endpoints(service) == service.endpoint_status = "healthy"

\* (mutant) only a missing cluster_ip counts as headless
is_headless_null_only(service) == IsNone(service.cluster_ip)

is_headless(service) ==
    IsNone(service.cluster_ip) \/ Get(service.cluster_ip) = "None"

get_proxy_url(service, port) ==
    <<"/">> \o service.namespace \o <<"_">> \o service.name \o <<"_">>
            \o IntToStr(port.port) \o <<"/">>

-----------------------------------------------------------------------------
(* service_discovery.py: _convert_service *)

\* ServicePort(name, port, protocol=port.protocol or "TCP")
ServicePort(port) ==
    [name |-> port.name,
     port |-> port.port,
     protocol |-> IF IsNone(port.protocol) THEN "TCP" ELSE Get(port.protocol)]

_convert_service(service) ==
    LET raw_ports == service.ports
        type == IF IsNone(service.type) THEN "ClusterIP" ELSE Get(service.type)
    IN IF \E i \in 1..Len(raw_ports) : ~validate_port(raw_ports[i].port)
       THEN Raise("ValidationError")
       ELSE IF type \notin ServiceTypes THEN Raise("ValueError")
       ELSE KubernetesService(service.name, service.namespace, type,
                              service.cluster_ip,
                              [i \in 1..Len(raw_ports) |-> ServicePort(raw_ports[i])],
                              None)

-----------------------------------------------------------------------------
(* config.py: Config *)

Lower(c) ==
    IF \E i \in 1..Len(UpperCase) : UpperCase[i] = c
    THEN LowerCase[CHOOSE i \in 1..Len(UpperCase) : UpperCase[i] = c]
    ELSE c

LowerStr(s) == [i \in 1..Len(s) |-> Lower(s[i])]

\* re.search(pattern, name, re.IGNORECASE) for a pattern without
\* metacharacters: the pattern occurs in the name, letter case ignored
re_search(pattern, name) ==
    \E k \in 0..(Len(name) - Len(pattern)) :
        LowerStr(SubSeq(name, k + 1, k + Len(pattern))) = LowerStr(pattern)

\* (mutant) only the first configured pattern is tried
is_frontend_service_first_pattern_only(cfg, service_name) ==
    IF Len(cfg.frontend_patterns) = 0 THEN FALSE
    ELSE re_search(cfg.frontend_patterns[1], service_name)

\* Config.is_frontend_service
is_frontend_service(cfg, service_name) ==
    IF Len(cfg.frontend_patterns) = 0 THEN FALSE
    ELSE \E i \in 1..Len(cfg.frontend_patterns) :
            re_search(cfg.frontend_patterns[i], service_name)

\* Config.is_frontend_port
is_frontend_port(cfg, port_name) ==
    IF Len(cfg.frontend_patterns) = 0 \/ Len(port_name) = 0 THEN FALSE
    ELSE \E i \in 1..Len(cfg.frontend_patterns) :
            re_search(cfg.frontend_patterns[i], port_name)

-----------------------------------------------------------------------------
(* models.py: ServiceDiscoveryResult *)

\* (mutant) a counter the caller passed is kept
calculate_services_keeps_passed(values) ==
    LET services == values.services
        Keep(passed, n) == IF IsNone(passed) THEN Some(n) ELSE passed
    IN [values EXCEPT
          !.total_services = Keep(@, Len(services)),
          !.healthy_services =
              Keep(@, Cardinality({i \in 1..Len(services) :
                                    services[i].endpoint_status = "healthy"})),
          !.unhealthy_services =
              Keep(@, Cardinality({i \in 1..Len(services) :
                                    services[i].endpoint_status = "unhealthy"})),
          !.frontend_services =
              Keep(@, Cardinality({i \in 1..Len(services) : services[i].is_frontend}))]

\* model_validator(mode="before"): the counters are computed from
\* values["services"], whatever the caller passed for them
calculate_services(values) ==
    LET services == values.services
    IN [values EXCEPT
          !.total_services = Some(Len(services)),
          !.healthy_services =
              Some(Cardinality({i \in 1..Len(services) :
                                    services[i].endpoint_status = "healthy"})),
          !.unhealthy_services =
              Some(Cardinality({i \in 1..Len(services) :
                                    services[i].endpoint_status = "unhealthy"})),
          !.frontend_services =
              Some(Cardinality({i \in 1..Len(services) : services[i].is_frontend}))]

\* a counter field: the value given, or the field's default 0
CounterField(v) == IF IsNone(v) THEN 0 ELSE Get(v)

\* the constructor ServiceDiscoveryResult, called with keyword arguments `values`
ServiceDiscoveryResult(values) ==
    LET v == calculate_services(values)
    IN [services |-> v.services,
        namespaces_scanned |-> v.namespaces_scanned,
        namespaces_skipped |-> v.namespaces_skipped,
        total_services |-> CounterField(v.total_services),
        healthy_services |-> CounterField(v.healthy_services),
        unhealthy_services |-> CounterField(v.unhealthy_services),
        frontend_services |-> CounterField(v.frontend_services)]

\* the key of get_sorted_services: (s.namespace, s.name)
KeyLess(a, b) ==
    \/ StrLess(a.namespace, b.namespace)
    \/ a.namespace = b.namespace /\ StrLess(a.name, b.name)

\* insertion of x after every element that is not greater (the sort is stable)
RECURSIVE InsertSorted(_, _)
InsertSorted(sorted, x) ==
    IF Len(sorted) = 0 THEN <<x>>
    ELSE IF KeyLess(x, Head(sorted)) THEN <<x>> \o sorted
    ELSE <<Head(sorted)>> \o InsertSorted(Tail(sorted), x)

RECURSIVE SortServices(_)
SortServices(services) ==
    IF Len(services) = 0 THEN <<>>
    ELSE InsertSorted(SortServices(Prefix(services, Len(services) - 1)),
                      services[Len(services)])

get_sorted_services(res) == SortServices(res.services)

-----------------------------------------------------------------------------
(* portal_generator.py: generate_json_data *)

ServiceEntry(service, port) ==
    [namespace |-> service.namespace,
     service |-> service.name,
     port |-> port.port,
     port_name |-> port.name,
     protocol |-> port.protocol,
     service_type |-> service.service_type,
     cluster_ip |-> service.cluster_ip,
     endpoint_status |-> service.endpoint_status,
     is_frontend |-> service.is_frontend,
     has_endpoints |-> has_valid_endpoints(service),
     endpoint_count |-> Len(service.endpoints),
     proxy_url |-> get_proxy_url(service, port),
     display_name |-> display_name(service) \o <<":">> \o IntToStr(port.port)]

generate_json_data(res) ==
    LET sorted == get_sorted_services(res)
    IN [services |->
            Flatten([i \in 1..Len(sorted) |->
                [p \in 1..Len(sorted[i].ports) |->
                    ServiceEntry(sorted[i], sorted[i].ports[p])]]),
        meta |->
            [total_services |-> res.total_services,
             healthy_services |-> res.healthy_services,
             unhealthy_services |-> res.unhealthy_services,
             frontend_services |-> res.frontend_services,
             namespaces_scanned |-> res.namespaces_scanned,
             namespaces_skipped |-> res.namespaces_skipped]]

-----------------------------------------------------------------------------
(* nginx_generator.py *)

PathChars == SeqToSet(LowerCase) \cup SeqToSet(UpperCase) \cup SeqToSet(Digits)
                \cup {"-", "_", "/"}

\* re.sub(r"_+", "_", s)
RECURSIVE CollapseUnderscores(_)
CollapseUnderscores(s) ==
    IF Len(s) <= 1 THEN s
    ELSE IF s[1] = "_" /\ s[2] = "_" THEN CollapseUnderscores(Tail(s))
    ELSE <<s[1]>> \o CollapseUnderscores(Tail(s))

_generate_location_path(service, port) ==
    LET path == <<"/">> \o service.namespace \o <<"_">> \o service.name \o <<"_">>
                    \o IntToStr(port.port)
        clean_path == [i \in 1..Len(path) |->
                          IF path[i] \in PathChars THEN path[i] ELSE "_"]
    IN CollapseUnderscores(clean_path)

SvcClusterLocal == <<".", "s", "v", "c", ".", "c", "l", "u", "s", "t", "e", "r",
                     ".", "l", "o", "c", "a", "l", ":">>

_generate_service_dns(service, port) ==
    service.name \o <<".">> \o service.namespace \o SvcClusterLocal
        \o IntToStr(port.port)

\* f"{service.namespace}_{service.name}_{port.port}"
service_key(service, port) ==
    service.namespace \o <<"_">> \o service.name \o <<"_">> \o IntToStr(port.port)

\* the loop of _build_nginx_config over the (service, port) pairs, in order:
\* st = [locations, processed_services]
RECURSIVE BuildLocations(_, _)
BuildLocations(pairs, st) ==
    IF Len(pairs) = 0 THEN st
    ELSE LET service == Head(pairs)[1]
             port == Head(pairs)[2]
             key == service_key(service, port)
         IN IF key \in st.processed_services
            THEN BuildLocations(Tail(pairs), st)
            ELSE BuildLocations(Tail(pairs),
                    [locations |-> Append(st.locations,
                         [path |-> _generate_location_path(service, port),
                          service_dns |-> _generate_service_dns(service, port)]),
                     processed_services |-> st.processed_services \cup {key}])

_build_nginx_config(res) ==
    LET services == res.services
        pairs == Flatten([i \in 1..Len(services) |->
                    IF ~has_valid_endpoints(services[i]) THEN <<>>
                    ELSE [p \in 1..Len(services[i].ports) |->
                            <<services[i], services[i].ports[p]>>]])
    IN BuildLocations(pairs, [locations |-> <<>>, processed_services |-> {}]).locations

-----------------------------------------------------------------------------
(* service_discovery.py: the discovery cycle *)

\* (mutant) an ApiException of list_namespace propagates
_get_namespaces_api_error_propagates(resp) ==
    IF resp.kind = "ok" THEN Ok(resp.body) ELSE Raise(ExcOf(resp))

\* _get_namespaces: the names listed, [] on an ApiException; any other
\* exception propagates
_get_namespaces(resp) ==
    IF resp.kind = "ok" THEN Ok(resp.body)
    ELSE IF Catches("ApiException", Raise(ExcOf(resp))) THEN Ok(<<>>)
    ELSE Raise(ExcOf(resp))

RECURSIVE SelectSeq2(_, _)
SelectSeq2(s, keep) ==
    IF Len(s) = 0 THEN <<>>
    ELSE (IF Head(s) \in keep THEN <<Head(s)>> ELSE <<>>) \o SelectSeq2(Tail(s), keep)

\* [x for x in s if x not in drop]
Without(s, drop) == SelectSeq2(s, SeqToSet(s) \ drop)

\* (mutant) the skip list is compared without regard to letter case
_filter_namespaces_ignoring_case(cfg, nss) ==
    SelectSeq2(nss, {ns \in SeqToSet(nss) :
                        \A i \in 1..Len(cfg.skip_namespaces) :
                            LowerStr(cfg.skip_namespaces[i]) # LowerStr(ns)})

\* skip_set = set(self.config.skip_namespaces);
\* [ns for ns in namespaces if ns not in skip_set]
_filter_namespaces(cfg, nss) == Without(nss, SeqToSet(cfg.skip_namespaces))

\* the record of one call of the cluster API: which API, for which namespace
\* and service, and the HTTP status of the answer (0: no HTTP answer)
ApiCall(api, namespace, name, resp) ==
    [api |-> api, namespace |-> namespace, name |-> name, status |-> resp.status]

Lookup(api, service, resp) == ApiCall(api, service.namespace, service.name, resp)

\* the lookups _get_service_endpoints issues
LookupsOf(service, sliceResp, legacyResp) ==
    <<Lookup("endpoint_slices", service, sliceResp)>>
    \o (IF LegacyQueried(service, sliceResp)
        THEN <<Lookup("endpoints", service, legacyResp)>> ELSE <<>>)

\* the body of the loop over services.items for one raw service: what is
\* appended to discovered_services ([] when the service is skipped)
ProcessedService(cfg, service, sliceResp, legacyResp) ==
    LET c == _convert_service(service)
    IN IF c.raised THEN <<>>
       ELSE IF is_headless(c.val) /\ ~cfg.include_headless_services THEN <<>>
       ELSE LET e == _get_service_endpoints(service, sliceResp, legacyResp)
            IN IF e.raised THEN <<>>
               ELSE <<[c.val EXCEPT
                         !.endpoints = e.val,
                         !.endpoint_status = _determine_endpoint_status(e.val)]>>

\* are endpoints looked up for this raw service?
EndpointsLookedUp(cfg, service) ==
    LET c == _convert_service(service)
    IN ~c.raised /\ ~(is_headless(c.val) /\ ~cfg.include_headless_services)

\* (mutant) the lists the cycle collects into are kept from the call before
StartDiscovery_keeps_collected(resp) ==
    /\ pc = "idle"
    /\ LET n == _get_namespaces(resp)
       IN IF n.raised
          THEN /\ pc' = "failed"
               /\ UNCHANGED <<namespaces, namespaces_to_scan>>
          ELSE /\ pc' = "scan"
               /\ namespaces' = n.val
               /\ namespaces_to_scan' = _filter_namespaces(config, n.val)
    /\ ns_idx' = 1
    /\ api_calls' = <<ApiCall("namespaces", <<>>, <<>>, resp)>>
    /\ UNCHANGED <<config, all_services, scanned_namespaces, n_items, item_idx,
                   cur_service, discovered_services, result, json_data, nginx_config,
                   call, ret>>

\* discover_services up to the loop: _get_namespaces, _filter_namespaces
StartDiscovery(resp) ==
    /\ pc = "idle"
    /\ LET n == _get_namespaces(resp)
       IN IF n.raised
          THEN /\ pc' = "failed"
               /\ UNCHANGED <<namespaces, namespaces_to_scan>>
          ELSE /\ pc' = "scan"
               /\ namespaces' = n.val
               /\ namespaces_to_scan' = _filter_namespaces(config, n.val)
    /\ all_services' = <<>>
    /\ scanned_namespaces' = <<>>
    /\ ns_idx' = 1
    /\ api_calls' = <<ApiCall("namespaces", <<>>, <<>>, resp)>>
    /\ UNCHANGED <<config, n_items, item_idx, cur_service, discovered_services, result,
                   json_data, nginx_config, call, ret>>

\* one iteration of the loop over namespaces_to_scan, up to the answer of
\* list_namespaced_service
ListServices(resp) ==
    /\ pc = "scan"
    /\ ns_idx <= Len(namespaces_to_scan)
    /\ LET namespace == namespaces_to_scan[ns_idx]
       IN CASE resp.kind = "ok" ->
                 /\ n_items' = resp.body
                 /\ item_idx' = 1
                 /\ discovered_services' = <<>>
                 /\ pc' = "services"
                 /\ UNCHANGED <<ns_idx, all_services, scanned_namespaces>>
            [] resp.kind = "api_error" ->
                 \* except ApiException: return []
                 /\ all_services' = all_services \o <<>>
                 /\ scanned_namespaces' = Append(scanned_namespaces, namespace)
                 /\ ns_idx' = ns_idx + 1
                 /\ UNCHANGED <<pc, n_items, item_idx, discovered_services>>
            [] OTHER ->
                 \* except Exception in discover_services: continue
                 /\ ns_idx' = ns_idx + 1
                 /\ UNCHANGED <<pc, n_items, item_idx, discovered_services,
                                all_services, scanned_namespaces>>
    /\ cur_service' = None
    /\ api_calls' = <<ApiCall("services", namespaces_to_scan[ns_idx], <<>>, resp)>>
    /\ UNCHANGED <<config, namespaces, namespaces_to_scan, result, json_data,
                   nginx_config, call, ret>>

\* (mutant) a record that cannot be processed ends the loop over the items
ProcessService_stops_at_bad_record(raw, sliceResp, legacyResp) ==
    /\ pc = "services"
    /\ item_idx <= n_items
    /\ cur_service' = Some(raw)
    /\ discovered_services' = discovered_services \o
           ProcessedService(config, raw, sliceResp, legacyResp)
    /\ api_calls' = IF EndpointsLookedUp(config, raw)
                    THEN LookupsOf(raw, sliceResp, legacyResp)
                    ELSE <<>>
    /\ item_idx' = IF _convert_service(raw).raised THEN n_items + 1 ELSE item_idx + 1
    /\ UNCHANGED <<config, pc, namespaces, namespaces_to_scan, ns_idx, all_services,
                   scanned_namespaces, n_items, result, json_data, nginx_config,
                   call, ret>>

\* one iteration of the loop over services.items; raw is the item read
ProcessService(raw, sliceResp, legacyResp) ==
    /\ pc = "services"
    /\ item_idx <= n_items
    /\ cur_service' = Some(raw)
    /\ discovered_services' = discovered_services \o
           ProcessedService(config, raw, sliceResp, legacyResp)
    /\ api_calls' = IF EndpointsLookedUp(config, raw)
                    THEN LookupsOf(raw, sliceResp, legacyResp)
                    ELSE <<>>
    /\ item_idx' = item_idx + 1
    /\ UNCHANGED <<config, pc, namespaces, namespaces_to_scan, ns_idx, all_services,
                   scanned_namespaces, n_items, result, json_data, nginx_config,
                   call, ret>>

\* _discover_services_in_namespace returns; extend and append
FinishNamespace ==
    /\ pc = "services"
    /\ item_idx > n_items
    /\ all_services' = all_services \o discovered_services
    /\ scanned_namespaces' = Append(scanned_namespaces, namespaces_to_scan[ns_idx])
    /\ ns_idx' = ns_idx + 1
    /\ pc' = "scan"
    /\ n_items' = 0
    /\ item_idx' = 1
    /\ cur_service' = None
    /\ discovered_services' = <<>>
    /\ api_calls' = <<>>
    /\ UNCHANGED <<config, namespaces, namespaces_to_scan, result, json_data,
                   nginx_config, call, ret>>

\* (mutant) only the namespaces the filter removed count as skipped
skipped_namespaces_filtered_only(nss, scanned) ==
    Without(nss, SeqToSet(namespaces_to_scan))

\* skipped_namespaces = [ns for ns in namespaces if ns not in scanned_namespaces]
skipped_namespaces(nss, scanned) == Without(nss, SeqToSet(scanned))

\* after the loop: skipped_namespaces and the result
BuildResult ==
    /\ pc = "scan"
    /\ ns_idx > Len(namespaces_to_scan)
    /\ result' = Some(ServiceDiscoveryResult(
            [services |-> all_services,
             namespaces_scanned |-> scanned_namespaces,
             namespaces_skipped |-> skipped_namespaces(namespaces, scanned_namespaces),
             total_services |-> None,
             healthy_services |-> None,
             unhealthy_services |-> None,
             frontend_services |-> None]))
    /\ pc' = "json"
    /\ api_calls' = <<>>
    /\ UNCHANGED <<config, namespaces, namespaces_to_scan, ns_idx, all_services,
                   scanned_namespaces, n_items, item_idx, cur_service, discovered_services,
                   json_data, nginx_config, call, ret>>

-----------------------------------------------------------------------------
(* porthole.py: generate *)

\* portal_gen.generate_json_data(result)
GenerateJson ==
    /\ pc = "json"
    /\ json_data' = Some(generate_json_data(Get(result)))
    /\ pc' = "nginx"
    /\ UNCHANGED <<config, namespaces, namespaces_to_scan, ns_idx, all_services,
                   scanned_namespaces, n_items, item_idx, cur_service, discovered_services,
                   result, nginx_config, api_calls, call, ret>>

\* nginx_gen.generate_nginx_config(result)
GenerateNginx ==
    /\ pc = "nginx"
    /\ nginx_config' = Some(_build_nginx_config(Get(result)))
    /\ pc' = "done"
    /\ UNCHANGED <<config, namespaces, namespaces_to_scan, ns_idx, all_services,
                   scanned_namespaces, n_items, item_idx, cur_service, discovered_services,
                   result, json_data, api_calls, call, ret>>

-----------------------------------------------------------------------------
(* The cluster and the configuration the cycle runs against *)

\* most namespaces the cluster lists
MaxNs == 2
\* most services one cycle collects (all_services and the listing in progress)
MaxServices == 2

NsDev == <<"d", "e", "v">>
NsKube == <<"k", "u", "b", "e">>
NsProd == <<"p", "r", "o", "d">>
NsPool == <<NsDev, NsKube, NsProd>>

SvcUi == <<"u", "i">>
SvcApi == <<"a", "p", "i">>
PortHttp == <<"h", "t", "t", "p">>
PortDns == <<"d", "n", "s">>
PortDnsTcp == <<"d", "n", "s", "-", "t", "c", "p">>

\* the namespace lists of the cluster: the names of NsPool, in its order
NamespaceLists ==
    {Without(NsPool, drop) : drop \in {d \in SUBSET SeqToSet(NsPool) :
                                 Len(NsPool) - Cardinality(d) <= MaxNs}}

NamespaceResponses ==
    {ApiOk(l) : l \in NamespaceLists} \cup {ApiError(403), OtherError}

ConfigPool ==
    [skip_namespaces : {<<>>, <<NsKube>>},
     include_headless_services : BOOLEAN,
     frontend_patterns : {<< <<"U", "I">> >>}]

RawPort(name, port, protocol) == [name |-> name, port |-> port, protocol |-> protocol]

RawService(name, namespace, type, cluster_ip, ports) ==
    [name |-> name, namespace |-> namespace, type |-> type,
     cluster_ip |-> cluster_ip, ports |-> ports]

\* the raw services a namespace can hold: a plain one, one with the same port
\* number on two protocols, two headless ones (cluster_ip null and "None"),
\* and a record without a name
CycleRawServices(namespace) ==
    {RawService(SvcUi, namespace, None, Some("10.96.0.10"),
                <<RawPort(Some(PortHttp), 80, None)>>),
     RawService(SvcApi, namespace, Some("NodePort"), Some("10.96.0.11"),
                <<RawPort(Some(PortDns), 53, Some("UDP")),
                  RawPort(Some(PortDnsTcp), 53, Some("TCP"))>>),
     RawService(SvcUi, namespace, Some("ClusterIP"), None,
                <<RawPort(None, 80, Some("TCP"))>>),
     RawService(SvcApi, namespace, None, Some("None"),
                <<RawPort(None, 80, Some("TCP"))>>),
     RawService(<<>>, namespace, None, Some("10.96.0.12"),
                <<RawPort(None, 80, Some("TCP"))>>)}

\* the answers of list_namespaced_service: a list of up to n services (its
\* items are drawn as the loop reads them), or a failure
ServiceListResponses(n) ==
    {ApiOk(k) : k \in 0..n} \cup {ApiError(500), OtherError}

SliceEndpoint(addresses, conditions) ==
    [addresses |-> addresses, conditions |-> conditions, hostname |-> None]

EndpointSlice(endpoints, ports) == [endpoints |-> endpoints, ports |-> ports]

Address(ip) == [ip |-> ip, hostname |-> None]

Subset(addresses, not_ready_addresses, ports) ==
    [addresses |-> addresses, not_ready_addresses |-> not_ready_addresses,
     ports |-> ports]

\* one ready pod behind the service, as each API describes it
CycleSliceResponses ==
    {ApiError(404), ApiError(403), OtherError,
     ApiOk(<<EndpointSlice(
                <<SliceEndpoint(<<"10.244.0.1">>, Some([ready |-> Some(TRUE)]))>>,
                <<[port |-> 8080]>>)>>)}

CycleLegacyResponses ==
    {ApiError(404), ApiError(403), OtherError,
     ApiOk(<<Subset(<<Address("10.244.0.1")>>, <<>>, <<[port |-> 8080]>>)>>)}

\* an API that is not called gives no answer
NotCalled == [kind |-> "not_called", status |-> 0, body |-> <<>>]

\* the answers to the lookups of one service: the EndpointSlice API answers
\* if endpoints are looked up at all, the legacy API if it is queried
SliceAnswers(cfg, raw) ==
    IF EndpointsLookedUp(cfg, raw) THEN CycleSliceResponses ELSE {NotCalled}

LegacyAnswers(cfg, raw, sliceResp) ==
    IF EndpointsLookedUp(cfg, raw) /\ LegacyQueried(raw, sliceResp)
    THEN CycleLegacyResponses ELSE {NotCalled}

Init ==
    /\ config \in ConfigPool
    /\ pc = "idle"
    /\ namespaces = <<>>
    /\ namespaces_to_scan = <<>>
    /\ ns_idx = 1
    /\ all_services = <<>>
    /\ scanned_namespaces = <<>>
    /\ n_items = 0
    /\ item_idx = 1
    /\ cur_service = None
    /\ discovered_services = <<>>
    /\ result = None
    /\ json_data = None
    /\ nginx_config = None
    /\ api_calls = <<>>
    /\ call = None
    /\ ret = None

\* discover_services is called and the cluster answers list_namespace
BeginCycle ==
    /\ pc = "idle"
    /\ \E resp \in NamespaceResponses : StartDiscovery(resp)

\* the cluster answers list_namespaced_service for the namespace of this
\* iteration
ListNamespace ==
    /\ pc = "scan"
    /\ ns_idx <= Len(namespaces_to_scan)
    /\ \E resp \in ServiceListResponses(MaxServices - Len(all_services)) :
           ListServices(resp)

\* the loop reads the next item of the listing and the cluster answers the
\* lookups made for it
ProcessItem ==
    /\ pc = "services"
    /\ item_idx <= n_items
    /\ \E raw \in CycleRawServices(namespaces_to_scan[ns_idx]) :
          \E sliceResp \in SliceAnswers(config, raw) :
             \E legacyResp \in LegacyAnswers(config, raw, sliceResp) :
                ProcessService(raw, sliceResp, legacyResp)

Next ==
    \/ BeginCycle
    \/ ListNamespace
    \/ ProcessItem
    \/ FinishNamespace
    \/ BuildResult
    \/ GenerateJson
    \/ GenerateNginx

Spec == Init /\ [][Next]_vars

-----------------------------------------------------------------------------
(* The endpoint resolver on its own: get_service_by_name's two calls,       *)
(* _get_service_endpoints and _determine_endpoint_status, for every answer  *)
(* of the two endpoint APIs                                                 *)

IpPool == <<"10.244.0.1", "10.244.0.2", "10.244.0.3">>

ReadyAddresses ==
    <<[ip |-> "10.244.0.1", hostname |-> Some("pod-0")],
      [ip |-> "10.244.0.2", hostname |-> None],
      [ip |-> "10.244.0.3", hostname |-> None]>>

NotReadyAddresses ==
    <<[ip |-> "10.244.1.1", hostname |-> Some("pod-9")],
      [ip |-> "10.244.1.2", hostname |-> None],
      [ip |-> "10.244.1.3", hostname |-> None]>>

\* ports of a slice or subset: none, one, two, and one the model rejects
EndpointPortLists ==
    {<<>>, <<[port |-> 8080]>>, <<[port |-> 8080], [port |-> 9090]>>, <<[port |-> 0]>>}

ConditionsPool ==
    {None, Some([ready |-> Some(TRUE)]), Some([ready |-> Some(FALSE)]),
     Some([ready |-> None])}

SliceEndpoints ==
    {SliceEndpoint(Prefix(IpPool, n), c) : n \in 0..MaxAddrs, c \in ConditionsPool}

EndpointSlices ==
    {EndpointSlice(e, p) : e \in SeqsUpTo(SliceEndpoints, MaxEps),
                           p \in EndpointPortLists}

SliceResponses ==
    {ApiOk(<<>>)} \cup {ApiOk(<<s>>) : s \in EndpointSlices}
        \cup {ApiError(404), ApiError(403), ApiError(500), OtherError}

Subsets ==
    {Subset(Prefix(ReadyAddresses, n), Prefix(NotReadyAddresses, m), p) :
        n \in 0..MaxAddrs, m \in 0..MaxAddrs, p \in EndpointPortLists}

LegacyResponses ==
    {ApiOk(<<>>)} \cup {ApiOk(<<s>>) : s \in Subsets}
        \cup {ApiError(404), ApiError(403), OtherError}

ResolverServices ==
    {RawService(SvcUi, NsDev, None, Some("10.96.0.10"), p) :
        p \in {<<>>,
               <<RawPort(Some(PortHttp), 80, None)>>,
               <<RawPort(Some(PortHttp), 80, None), RawPort(None, 443, None)>>}}

\* the cycle's variables, unused
CycleIdle ==
    /\ config = [skip_namespaces |-> <<>>, include_headless_services |-> FALSE,
                 frontend_patterns |-> <<>>]
    /\ namespaces = <<>>
    /\ namespaces_to_scan = <<>>
    /\ ns_idx = 1
    /\ all_services = <<>>
    /\ scanned_namespaces = <<>>
    /\ n_items = 0
    /\ item_idx = 1
    /\ cur_service = None
    /\ discovered_services = <<>>
    /\ api_calls = <<>>

ResolverInit ==
    /\ CycleIdle
    /\ pc = "resolve"
    /\ result = None
    /\ json_data = None
    /\ nginx_config = None
    /\ call \in [service : ResolverServices, sliceResp : SliceResponses,
                 legacyResp : LegacyResponses]
    /\ ret = None

\* endpoints = self._get_service_endpoints(service)
ResolveEndpoints ==
    /\ pc = "resolve"
    /\ ret' = [endpoints |->
                  _get_service_endpoints(call.service, call.sliceResp, call.legacyResp),
               endpoint_status |-> "unknown"]
    /\ pc' = "status"
    /\ api_calls' = LookupsOf(call.service, call.sliceResp, call.legacyResp)
    /\ UNCHANGED <<config, namespaces, namespaces_to_scan, ns_idx, all_services,
                   scanned_namespaces, n_items, item_idx, cur_service,
                   discovered_services, result, json_data, nginx_config, call>>

\* k8s_service.endpoint_status = self._determine_endpoint_status(endpoints)
DetermineStatus ==
    /\ pc = "status"
    /\ ~ret.endpoints.raised
    /\ ret' = [ret EXCEPT !.endpoint_status =
                              _determine_endpoint_status(ret.endpoints.val)]
    /\ pc' = "resolved"
    /\ UNCHANGED <<config, namespaces, namespaces_to_scan, ns_idx, all_services,
                   scanned_namespaces, n_items, item_idx, cur_service,
                   discovered_services, result, json_data, nginx_config, api_calls,
                   call>>

ResolverNext == ResolveEndpoints \/ DetermineStatus

SpecResolver == ResolverInit /\ [][ResolverNext]_vars

-----------------------------------------------------------------------------
(* A ServiceDiscoveryResult built by a caller and handed to the generators  *)

\* longest service list a caller passes
MaxResultServices == 2

\* counter values a caller passes (None: not passed)
PassedCounters == {None, Some(0), Some(7)}

ResultServices ==
    {[name |-> SvcUi, namespace |-> NsDev, service_type |-> "ClusterIP",
      cluster_ip |-> Some("10.96.0.10"),
      ports |-> <<[name |-> Some(PortHttp), port |-> 80, protocol |-> "TCP"]>>,
      endpoints |-> <<>>, endpoint_status |-> st, is_frontend |-> f] :
        st \in {"healthy", "unhealthy", "unknown"}, f \in BOOLEAN}

ResultInit ==
    /\ CycleIdle
    /\ pc = "construct"
    /\ result = None
    /\ json_data = None
    /\ nginx_config = None
    /\ call \in [services : SeqsUpTo(ResultServices, MaxResultServices),
                 namespaces_scanned : {<<NsDev>>},
                 namespaces_skipped : {<<>>},
                 total_services : PassedCounters,
                 healthy_services : PassedCounters,
                 unhealthy_services : PassedCounters,
                 frontend_services : PassedCounters]
    /\ ret = None

\* result = ServiceDiscoveryResult(...) with the keyword arguments of `call`
Construct ==
    /\ pc = "construct"
    /\ result' = Some(ServiceDiscoveryResult(call))
    /\ pc' = "json"
    /\ UNCHANGED <<config, namespaces, namespaces_to_scan, ns_idx, all_services,
                   scanned_namespaces, n_items, item_idx, cur_service,
                   discovered_services, json_data, nginx_config, api_calls,
                   call, ret>>

ResultNext == Construct \/ GenerateJson \/ GenerateNginx

SpecResult == ResultInit /\ [][ResultNext]_vars

-----------------------------------------------------------------------------
(* discover_services called twice on one ServiceDiscovery object, against   *)
(* a cluster that does not change: call holds the cluster, ret the result   *)
(* of the first call                                                        *)

SvcDb == <<"d", "b">>

\* what list_namespaced_service answers for a namespace: a failure, two
\* valid services around a record with a port out of range, or a headless
\* service between a record without a name and one without a namespace
Listings(namespace) ==
    LET raws == CycleRawServices(namespace)
        Ui == CHOOSE r \in raws : r.name = SvcUi /\ r.cluster_ip = Some("10.96.0.10")
        Api == CHOOSE r \in raws : r.name = SvcApi /\ Len(r.ports) = 2
        Headless == CHOOSE r \in raws : r.cluster_ip = Some("None")
        Unnamed == CHOOSE r \in raws : Len(r.name) = 0
        BadPort == RawService(SvcDb, namespace, None, Some("10.96.0.13"),
                              <<RawPort(Some(PortHttp), 80, None),
                                RawPort(None, MAX_PORT + 1, None)>>)
        NoNamespace == RawService(SvcUi, <<>>, None, Some("10.96.0.14"),
                                  <<RawPort(None, 80, None)>>)
    IN {ApiError(500), OtherError,
        ApiOk(<<Ui, BadPort, Api>>),
        ApiOk(<<Unnamed, Headless, NoNamespace>>)}

\* what the two endpoint APIs answer for every service of the cluster; in
\* the last one the EndpointSlice carries a port out of range
EndpointApis ==
    LET SliceOk == CHOOSE r \in CycleSliceResponses : r.kind = "ok"
        LegacyOk == CHOOSE r \in CycleLegacyResponses : r.kind = "ok"
        SliceBadPort ==
            ApiOk(<<EndpointSlice(
                       <<SliceEndpoint(<<"10.244.0.9">>, Some([ready |-> Some(TRUE)]))>>,
                       <<[port |-> 8080], [port |-> MIN_PORT - 1]>>)>>)
    IN {[slice |-> SliceOk, legacy |-> ApiError(404)],
        [slice |-> ApiError(404), legacy |-> LegacyOk],
        [slice |-> ApiError(403), legacy |-> ApiError(403)],
        [slice |-> SliceBadPort, legacy |-> LegacyOk]}

Clusters ==
    [namespaces : NamespaceResponses,
     services : {f \in [SeqToSet(NsPool) -> UNION {Listings(n) : n \in SeqToSet(NsPool)}] :
                    \A n \in SeqToSet(NsPool) : f[n] \in Listings(n)},
     endpoints : EndpointApis]

RepeatInit ==
    /\ config \in ConfigPool
    /\ pc = "idle"
    /\ namespaces = <<>>
    /\ namespaces_to_scan = <<>>
    /\ ns_idx = 1
    /\ all_services = <<>>
    /\ scanned_namespaces = <<>>
    /\ n_items = 0
    /\ item_idx = 1
    /\ cur_service = None
    /\ discovered_services = <<>>
    /\ result = None
    /\ json_data = None
    /\ nginx_config = None
    /\ api_calls = <<>>
    /\ call \in Clusters
    /\ ret = None

\* the listing of the namespace of this iteration, as the cluster holds it
CurrentListing == call.services[namespaces_to_scan[ns_idx]]

RepeatBegin == StartDiscovery(call.namespaces)

RepeatList ==
    /\ pc = "scan"
    /\ ns_idx <= Len(namespaces_to_scan)
    /\ ListServices(IF CurrentListing.kind = "ok"
                    THEN ApiOk(Len(CurrentListing.body))
                    ELSE CurrentListing)

RepeatProcess ==
    /\ pc = "services"
    /\ item_idx <= n_items
    /\ ProcessService(CurrentListing.body[item_idx],
                      call.endpoints.slice, call.endpoints.legacy)

\* the caller keeps the first result and calls discover_services again
CallAgain ==
    /\ pc = "json"
    /\ IsNone(ret)
    /\ ret' = result
    /\ pc' = "idle"
    /\ UNCHANGED <<config, namespaces, namespaces_to_scan, ns_idx, all_services,
                   scanned_namespaces, n_items, item_idx, cur_service,
                   discovered_services, result, json_data, nginx_config, api_calls,
                   call>>

RepeatNext ==
    \/ RepeatBegin
    \/ RepeatList
    \/ RepeatProcess
    \/ FinishNamespace
    \/ BuildResult
    \/ CallAgain

SpecRepeat == RepeatInit /\ [][RepeatNext]_vars

-----------------------------------------------------------------------------
(* k8s_client.py: the client is created and initialized before the first    *)
(* discovery cycle of a run (generate, discover, watch); call holds what    *)
(* the environment provides, ret the KubernetesClient and what the run      *)
(* raised                                                                   *)

\* (mutant) a 403 of the namespace probe is logged and the probe passes
_test_connection_forbidden_tolerated(resources, probe) ==
    IF resources.kind = "api_error"
    THEN (IF resources.status \in {401, 403} THEN Raise("SystemExit")
          ELSE Raise("ApiException"))
    ELSE IF resources.kind # "ok" THEN Raise(ExcOf(resources))
    ELSE IF probe.kind = "api_error"
         THEN (IF probe.status = 401 THEN Raise("SystemExit")
               ELSE IF probe.status = 403 THEN Ok(<<>>)
               ELSE Raise("ApiException"))
    ELSE IF probe.kind # "ok" THEN Raise(ExcOf(probe))
    ELSE Ok(<<>>)

\* _test_connection: get_api_resources, then list_namespace(limit=1); a 401
\* or 403 of either raises SystemExit(1), any other failure is re-raised
_test_connection(resources, probe) ==
    IF resources.kind = "api_error"
    THEN (IF resources.status \in {401, 403} THEN Raise("SystemExit")
          ELSE Raise("ApiException"))
    ELSE IF resources.kind # "ok" THEN Raise(ExcOf(resources))
    ELSE IF probe.kind = "api_error"
         THEN (IF probe.status \in {401, 403} THEN Raise("SystemExit")
               ELSE Raise("ApiException"))
    ELSE IF probe.kind # "ok" THEN Raise(ExcOf(probe))
    ELSE Ok(<<>>)

\* KubernetesClient.__init__
KubernetesClient == [_core_v1 |-> FALSE, _is_initialized |-> FALSE]

\* initialize: [raised, exc, val], val the client as the call leaves it
initialize(client, env) ==
    IF client._is_initialized THEN [raised |-> FALSE, exc |-> "", val |-> client]
    ELSE IF env.config_source = "none"
         THEN [raised |-> TRUE, exc |-> "RuntimeError", val |-> client]
    ELSE LET with_apis == [client EXCEPT !._core_v1 = TRUE]
             t == _test_connection(env.resources, env.probe)
         IN IF t.raised
            THEN [raised |-> TRUE, exc |-> t.exc, val |-> with_apis]
            ELSE [raised |-> FALSE, exc |-> "",
                  val |-> [with_apis EXCEPT !._is_initialized = TRUE]]

\* where the kubernetes configuration is found, and what the API answers to
\* the two calls of the connectivity probe
StartupEnvironments ==
    [config_source : {"in_cluster", "kubeconfig", "none"},
     resources : {ApiOk(<<>>), ApiError(401), ApiError(403), ApiError(500), OtherError},
     probe : {ApiOk(<<>>), ApiError(401), ApiError(403), ApiError(500), OtherError}]

StartupInit ==
    /\ config = [skip_namespaces |-> <<NsKube>>, include_headless_services |-> FALSE,
                 frontend_patterns |-> << <<"U", "I">> >>]
    /\ pc = "start"
    /\ namespaces = <<>>
    /\ namespaces_to_scan = <<>>
    /\ ns_idx = 1
    /\ all_services = <<>>
    /\ scanned_namespaces = <<>>
    /\ n_items = 0
    /\ item_idx = 1
    /\ cur_service = None
    /\ discovered_services = <<>>
    /\ result = None
    /\ json_data = None
    /\ nginx_config = None
    /\ api_calls = <<>>
    /\ call \in StartupEnvironments
    /\ ret = None

\* k8s_client = get_kubernetes_client(config): an exception out of
\* initialize ends the run (SystemExit passes the handlers of the commands,
\* any other exception reaches them and they exit)
GetKubernetesClient ==
    /\ pc = "start"
    /\ LET r == initialize(KubernetesClient, call)
       IN /\ ret' = Some([client |-> r.val, raised |-> r.exc])
          /\ pc' = IF r.raised THEN "exit" ELSE "idle"
    /\ UNCHANGED <<config, namespaces, namespaces_to_scan, ns_idx, all_services,
                   scanned_namespaces, n_items, item_idx, cur_service,
                   discovered_services, result, json_data, nginx_config, api_calls,
                   call>>

StartupNext ==
    \/ GetKubernetesClient
    \/ BeginCycle
    \/ ListNamespace
    \/ ProcessItem
    \/ FinishNamespace
    \/ BuildResult
    \/ GenerateJson
    \/ GenerateNginx

SpecStartup == StartupInit /\ [][StartupNext]_vars

-----------------------------------------------------------------------------
(* porthole.py: one iteration of watch, during which the process may be     *)
(* interrupted (SIGINT raises KeyboardInterrupt in the main thread at the   *)
(* point the program has reached); ret records the signal and where it      *)
(* arrived                                                                  *)

InterruptInit ==
    /\ config = [skip_namespaces |-> <<NsKube>>, include_headless_services |-> FALSE,
                 frontend_patterns |-> << <<"U", "I">> >>]
    /\ pc = "idle"
    /\ namespaces = <<>>
    /\ namespaces_to_scan = <<>>
    /\ ns_idx = 1
    /\ all_services = <<>>
    /\ scanned_namespaces = <<>>
    /\ n_items = 0
    /\ item_idx = 1
    /\ cur_service = None
    /\ discovered_services = <<>>
    /\ result = None
    /\ json_data = None
    /\ nginx_config = None
    /\ api_calls = <<>>
    /\ call = None
    /\ ret = None

\* KeyboardInterrupt is raised where the iteration stands and passes the
\* handlers around that point, innermost first: the handler of the loop over
\* the items (except Exception: continue), the handler of
\* _discover_services_in_namespace (except ApiException: return []), the
\* handler of the loop over the namespaces (except Exception: continue), and
\* the handlers of watch (except KeyboardInterrupt: break, before except
\* Exception)
Interrupt ==
    /\ pc \in {"idle", "scan", "services", "json", "nginx"}
    /\ IsNone(ret)
    /\ ret' = Some([raised |-> "KeyboardInterrupt", pc |-> pc, ns_idx |-> ns_idx])
    /\ LET e == Raise("KeyboardInterrupt")
           in_item == pc = "services" /\ item_idx <= n_items
           in_namespace == \/ pc = "services"
                           \/ pc = "scan" /\ ns_idx <= Len(namespaces_to_scan)
       IN IF in_item /\ Catches("Exception", e)
          THEN /\ item_idx' = item_idx + 1
               /\ UNCHANGED <<pc, ns_idx, scanned_namespaces, n_items,
                              discovered_services>>
          ELSE IF in_namespace /\ Catches("ApiException", e)
          THEN /\ pc' = "scan"
               /\ scanned_namespaces' =
                      Append(scanned_namespaces, namespaces_to_scan[ns_idx])
               /\ ns_idx' = ns_idx + 1
               /\ n_items' = 0
               /\ item_idx' = 1
               /\ discovered_services' = <<>>
          ELSE IF in_namespace /\ Catches("Exception", e)
          THEN /\ pc' = "scan"
               /\ ns_idx' = ns_idx + 1
               /\ n_items' = 0
               /\ item_idx' = 1
               /\ discovered_services' = <<>>
               /\ UNCHANGED scanned_namespaces
          ELSE /\ pc' = IF Catches("KeyboardInterrupt", e) \/ Catches("Exception", e)
                        THEN "stopped" ELSE "exit"
               /\ UNCHANGED <<ns_idx, scanned_namespaces, n_items, item_idx,
                              discovered_services>>
    /\ UNCHANGED <<config, namespaces, namespaces_to_scan, all_services, cur_service,
                   result, json_data, nginx_config, api_calls, call>>

InterruptNext ==
    \/ BeginCycle
    \/ ListNamespace
    \/ ProcessItem
    \/ FinishNamespace
    \/ BuildResult
    \/ GenerateJson
    \/ GenerateNginx
    \/ Interrupt

SpecInterrupt == InterruptInit /\ [][InterruptNext]_vars

-----------------------------------------------------------------------------
(* config.py: the frontend classifier applied to one name under a           *)
(* configured pattern list; call holds the name, ret the answer             *)

MaxPatterns == 2

\* a pattern that matches the empty string, and literal patterns in both cases
PatternPool == {<<>>, <<"U", "I">>, <<"w", "e", "b">>, <<"A", "p", "i">>}

ClassifiedNames ==
    {<<>>, <<"u", "i">>, <<"w", "e", "b", "-", "u", "i">>, <<"W", "E", "B">>,
     <<"a", "p", "i">>, <<"d", "b">>}

ClassifierInit ==
    /\ config \in {[skip_namespaces |-> <<>>, include_headless_services |-> FALSE,
                    frontend_patterns |-> ps] : ps \in SeqsUpTo(PatternPool, MaxPatterns)}
    /\ pc = "idle"
    /\ namespaces = <<>>
    /\ namespaces_to_scan = <<>>
    /\ ns_idx = 1
    /\ all_services = <<>>
    /\ scanned_namespaces = <<>>
    /\ n_items = 0
    /\ item_idx = 1
    /\ cur_service = None
    /\ discovered_services = <<>>
    /\ result = None
    /\ json_data = None
    /\ nginx_config = None
    /\ api_calls = <<>>
    /\ call \in {Some(name) : name \in ClassifiedNames}
    /\ ret = None

ClassifyService ==
    /\ pc = "idle"
    /\ ret' = Some([fn |-> "is_frontend_service",
                    val |-> is_frontend_service(config, Get(call))])
    /\ pc' = "classified"
    /\ UNCHANGED <<config, namespaces, namespaces_to_scan, ns_idx, all_services,
                   scanned_namespaces, n_items, item_idx, cur_service,
                   discovered_services, result, json_data, nginx_config, api_calls,
                   call>>

ClassifyPort ==
    /\ pc = "idle"
    /\ ret' = Some([fn |-> "is_frontend_port",
                    val |-> is_frontend_port(config, Get(call))])
    /\ pc' = "classified"
    /\ UNCHANGED <<config, namespaces, namespaces_to_scan, ns_idx, all_services,
                   scanned_namespaces, n_items, item_idx, cur_service,
                   discovered_services, result, json_data, nginx_config, api_calls,
                   call>>

ClassifierNext == ClassifyService \/ ClassifyPort

SpecClassifier == ClassifierInit /\ [][ClassifierNext]_vars

-----------------------------------------------------------------------------
(* service_discovery.py: one cycle over a cluster whose namespaces are       *)
(* listed in any order, under skip lists that name listed namespaces,        *)
(* unlisted ones, and a listed one in another letter case                    *)

\* the orderings of a list
PermutationsOf(s) ==
    {[i \in 1..Len(s) |-> s[f[i]]] :
        f \in {g \in [1..Len(s) -> 1..Len(s)] :
                  \A i, j \in 1..Len(s) : g[i] = g[j] => i = j}}

SkipLists == {<<>>, <<NsKube>>, << <<"D", "E", "V">>, NsKube >>, <<NsProd, NsDev>>}

NamespaceOrders == UNION {PermutationsOf(l) : l \in NamespaceLists}

\* clusters in which every namespace answers the listing with an error or
\* with services, and the EndpointSlice API answers every lookup
SkipClusters ==
    LET Listed(n) == {l \in Listings(n) :
                         \/ l.kind = "api_error"
                         \/ l.kind = "ok" /\ l.body[1].name = SvcUi}
    IN [namespaces : {ApiOk(l) : l \in NamespaceOrders},
        services : {f \in [SeqToSet(NsPool) ->
                              UNION {Listed(n) : n \in SeqToSet(NsPool)}] :
                       \A n \in SeqToSet(NsPool) : f[n] \in Listed(n)},
        endpoints : {e \in EndpointApis :
                        e.slice.kind = "ok" /\ e.legacy.status = 404}]

SkipInit ==
    /\ config \in {[skip_namespaces |-> skip, include_headless_services |-> FALSE,
                    frontend_patterns |-> <<>>] : skip \in SkipLists}
    /\ pc = "idle"
    /\ namespaces = <<>>
    /\ namespaces_to_scan = <<>>
    /\ ns_idx = 1
    /\ all_services = <<>>
    /\ scanned_namespaces = <<>>
    /\ n_items = 0
    /\ item_idx = 1
    /\ cur_service = None
    /\ discovered_services = <<>>
    /\ result = None
    /\ json_data = None
    /\ nginx_config = None
    /\ api_calls = <<>>
    /\ call \in SkipClusters
    /\ ret = None

SkipNext ==
    \/ RepeatBegin
    \/ RepeatList
    \/ RepeatProcess
    \/ FinishNamespace
    \/ BuildResult

SpecSkip == SkipInit /\ [][SkipNext]_vars

-----------------------------------------------------------------------------
(* config.py: Config.from_env under an environment and a JSON config file,  *)
(* followed by the start of a discovery cycle with the configuration built  *)

KubeSystem == <<"k", "u", "b", "e", "-", "s", "y", "s", "t", "e", "m">>
KubePublic == <<"k", "u", "b", "e", "-", "p", "u", "b", "l", "i", "c">>

\* the default_factory of Config.skip_namespaces
DefaultSkipNamespaces ==
    <<KubeSystem,
      KubePublic,
      <<"k", "u", "b", "e", "-", "n", "o", "d", "e", "-", "l", "e", "a", "s", "e">>,
      <<"l", "o", "c", "a", "l", "-", "p", "a", "t", "h", "-", "s", "t", "o", "r", "a", "g", "e">>,
      <<"k", "u", "b", "e", "r", "n", "e", "t", "e", "s", "-", "d", "a", "s", "h", "b", "o", "a", "r", "d">>,
      <<"m", "e", "t", "a", "l", "l", "b", "-", "s", "y", "s", "t", "e", "m">>,
      <<"c", "e", "r", "t", "-", "m", "a", "n", "a", "g", "e", "r">>,
      <<"i", "n", "g", "r", "e", "s", "s", "-", "n", "g", "i", "n", "x">>,
      <<"m", "o", "n", "i", "t", "o", "r", "i", "n", "g">>,
      <<"l", "o", "g", "g", "i", "n", "g">>,
      <<"i", "s", "t", "i", "o", "-", "s", "y", "s", "t", "e", "m">>,
      <<"l", "i", "n", "k", "e", "r", "d">>,
      <<"c", "a", "l", "i", "c", "o", "-", "s", "y", "s", "t", "e", "m">>,
      <<"t", "i", "g", "e", "r", "a", "-", "o", "p", "e", "r", "a", "t", "o", "r">>,
      <<"r", "o", "o", "k", "-", "c", "e", "p", "h">>,
      <<"v", "e", "l", "e", "r", "o">>,
      <<"a", "r", "g", "o", "c", "d">>,
      <<"f", "l", "u", "x", "-", "s", "y", "s", "t", "e", "m">>>>

\* Config(...): a field that is not passed takes its default
Config(values) ==
    [skip_namespaces |-> IF IsNone(values.skip_namespaces)
                         THEN DefaultSkipNamespaces
                         ELSE Get(values.skip_namespaces),
     include_headless_services |-> values.include_headless_services,
     frontend_patterns |-> values.frontend_patterns]

\* Config.parse_config: json_config is what _load_json_config returned (a key
\* that is absent is None), env the environment of the process; the
\* SKIP_NAMESPACES variable is not read
parse_config(json_config, env) ==
    LET skip_namespaces ==
            IF ~IsNone(json_config.namespaces_to_skip)
            THEN Get(json_config.namespaces_to_skip)
            ELSE <<>>
        frontend_patterns ==
            IF ~IsNone(json_config.frontend_pattern_matching)
            THEN Get(json_config.frontend_pattern_matching)
            ELSE <<>>
        include_headless ==
            IF IsNone(env.INCLUDE_HEADLESS_SERVICES) THEN <<"f", "a", "l", "s", "e">>
            ELSE Get(env.INCLUDE_HEADLESS_SERVICES)
    IN Config([skip_namespaces |-> Some(skip_namespaces),
               include_headless_services |->
                   LowerStr(include_headless) = <<"t", "r", "u", "e">>,
               frontend_patterns |-> frontend_patterns])

\* Config.from_env
from_env(json_config, env) == parse_config(json_config, env)

\* _load_json_config: {} when the file does not exist
JsonConfigs ==
    [namespaces_to_skip : {None, Some(<<>>), Some(<<NsDev>>)},
     frontend_pattern_matching : {None, Some(<< <<"U", "I">> >>)}]

Environments ==
    [SKIP_NAMESPACES : {None, Some(<<>>), Some(<<"d", "e", "v", ",", "p", "r", "o", "d">>)},
     INCLUDE_HEADLESS_SERVICES : {None, Some(<<"T", "r", "u", "e">>),
                                  Some(<<"f", "a", "l", "s", "e">>)}]

ConfigInit ==
    /\ config = Config([skip_namespaces |-> None, include_headless_services |-> FALSE,
                        frontend_patterns |-> <<>>])
    /\ pc = "start"
    /\ namespaces = <<>>
    /\ namespaces_to_scan = <<>>
    /\ ns_idx = 1
    /\ all_services = <<>>
    /\ scanned_namespaces = <<>>
    /\ n_items = 0
    /\ item_idx = 1
    /\ cur_service = None
    /\ discovered_services = <<>>
    /\ result = None
    /\ json_data = None
    /\ nginx_config = None
    /\ api_calls = <<>>
    /\ call \in [json_config : JsonConfigs, env : Environments]
    /\ ret = None

\* config = Config.from_env()
FromEnv ==
    /\ pc = "start"
    /\ config' = from_env(call.json_config, call.env)
    /\ pc' = "idle"
    /\ UNCHANGED <<namespaces, namespaces_to_scan, ns_idx, all_services,
                   scanned_namespaces, n_items, item_idx, cur_service,
                   discovered_services, result, json_data, nginx_config, api_calls,
                   call, ret>>

\* discover_services starts on a cluster that lists system namespaces
ConfigBegin ==
    /\ pc = "idle"
    /\ \E resp \in {ApiOk(<<KubeSystem, NsDev>>), ApiOk(<<NsDev, KubePublic, NsProd>>)} :
           StartDiscovery(resp)

ConfigNext == FromEnv \/ ConfigBegin

SpecConfig == ConfigInit /\ [][ConfigNext]_vars

-----------------------------------------------------------------------------
(* k8s_client.py: a KubernetesClient over its lifetime: initialize and the  *)
(* API properties are called again and again, each time under what the      *)
(* environment then provides; ret holds the client and what the last        *)
(* operation raised, api_calls the library and API calls it made            *)

\* _try_in_cluster_config: True iff load_incluster_config raised no
\* ConfigException
_try_in_cluster_config(env) == env.in_cluster

\* _try_kubeconfig: True iff some kubeconfig loaded
_try_kubeconfig(env) == env.kubeconfig

\* the if / elif / else of initialize over the two loaders
ConfigSource(env) ==
    IF _try_in_cluster_config(env) THEN "in_cluster"
    ELSE IF _try_kubeconfig(env) THEN "kubeconfig"
    ELSE "none"

LibraryCall(api, ok) ==
    [api |-> api, namespace |-> <<>>, name |-> <<>>, status |-> IF ok THEN 200 ELSE 0]

\* (mutant) initialize without the guard on _is_initialized
initialize_calls_without_guard(client, env) ==
    <<LibraryCall("load_incluster_config", _try_in_cluster_config(env))>>
    \o (IF _try_in_cluster_config(env) THEN <<>>
        ELSE <<LibraryCall("load_kube_config", _try_kubeconfig(env))>>)
    \o (IF ConfigSource(env) = "none" THEN <<>>
        ELSE <<ApiCall("get_api_resources", <<>>, <<>>, env.resources)>>
             \o (IF env.resources.kind = "ok"
                 THEN <<ApiCall("list_namespace", <<>>, <<>>, env.probe)>>
                 ELSE <<>>))

\* the library and API calls one call of initialize makes, in order: the
\* loaders (the second only when the first found nothing), then the two
\* calls of _test_connection (the second only when the first answered)
initialize_calls(client, env) ==
    IF client._is_initialized THEN <<>>
    ELSE <<LibraryCall("load_incluster_config", _try_in_cluster_config(env))>>
         \o (IF _try_in_cluster_config(env) THEN <<>>
             ELSE <<LibraryCall("load_kube_config", _try_kubeconfig(env))>>)
         \o (IF ConfigSource(env) = "none" THEN <<>>
             ELSE <<ApiCall("get_api_resources", <<>>, <<>>, env.resources)>>
                  \o (IF env.resources.kind = "ok"
                      THEN <<ApiCall("list_namespace", <<>>, <<>>, env.probe)>>
                      ELSE <<>>))

ClientEnvironments ==
    [in_cluster : BOOLEAN,
     kubeconfig : BOOLEAN,
     resources : {ApiOk(<<>>), ApiError(401), ApiError(500), OtherError},
     probe : {ApiOk(<<>>), ApiError(403), ApiError(500), OtherError}]

ClientInit ==
    /\ config = [skip_namespaces |-> <<>>, include_headless_services |-> FALSE,
                 frontend_patterns |-> <<>>]
    /\ pc = "idle"
    /\ namespaces = <<>>
    /\ namespaces_to_scan = <<>>
    /\ ns_idx = 1
    /\ all_services = <<>>
    /\ scanned_namespaces = <<>>
    /\ n_items = 0
    /\ item_idx = 1
    /\ cur_service = None
    /\ discovered_services = <<>>
    /\ result = None
    /\ json_data = None
    /\ nginx_config = None
    /\ api_calls = <<>>
    /\ call = None
    /\ ret = Some([op |-> "__init__", client |-> KubernetesClient, raised |-> ""])

\* one call of initialize on the client, from operation op
InitializeUnder(op, env) ==
    LET client == Get(ret).client
        r == initialize(client, [config_source |-> ConfigSource(env),
                                 resources |-> env.resources,
                                 probe |-> env.probe])
    IN /\ ret' = Some([op |-> op, client |-> r.val, raised |-> r.exc])
       /\ api_calls' = initialize_calls(client, env)
       /\ call' = Some(env)
       /\ UNCHANGED <<config, pc, namespaces, namespaces_to_scan, ns_idx, all_services,
                      scanned_namespaces, n_items, item_idx, cur_service,
                      discovered_services, result, json_data, nginx_config>>

\* client.initialize()
Initialize == \E env \in ClientEnvironments : InitializeUnder("initialize", env)

\* client.core_v1, client.apps_v1, client.discovery_v1: initialize() first
\* when the client is not initialized
AccessProperty ==
    \E op \in {"core_v1", "apps_v1", "discovery_v1"}, env \in ClientEnvironments :
        InitializeUnder(op, env)

ClientNext == Initialize \/ AccessProperty

SpecClient == ClientInit /\ [][ClientNext]_vars

-----------------------------------------------------------------------------
(* porthole.py: watch. call holds the cluster the next discovery cycle      *)
(* runs against, ret the frame of watch: the iteration counter, the         *)
(* --max-iterations option, the exception that ended the loop, and the      *)
(* iteration whose result each file of the output directory was written     *)
(* from (0: the file was not written by this run)                           *)

MaxWatchIterations == 3

\* the fields class Config declares
ConfigFields ==
    {"kubeconfig_path", "output_dir", "service_json_file", "portal_html_file",
     "nginx_config_file", "locations_config_file", "skip_namespaces",
     "include_headless_services", "portal_title", "refresh_interval", "log_level",
     "frontend_patterns", "enable_http_checking", "http_timeout", "http_user_agent"}

\* config.<name>: a pydantic model raises AttributeError for a name that is
\* not one of its fields
ConfigAttr(cfg, name) ==
    IF name \in ConfigFields /\ name \in DOMAIN cfg THEN Ok(cfg[name])
    ELSE Raise("AttributeError")

\* the truth value of an int | None option
Truthy(option) == ~IsNone(option) /\ Get(option) # 0

\* --max-iterations: not given, 0, or a positive count
MaxIterationsPool == {None, Some(0), Some(1), Some(2)}

\* what writing a file of the output directory does
WriteOutcomes == {"written", "OSError"}

WatchConfigs ==
    {[skip_namespaces |-> <<NsKube>>, include_headless_services |-> FALSE,
      frontend_patterns |-> << <<"U", "I">> >>, log_level |-> l] :
        l \in {"INFO", "DEBUG"}}

\* clusters whose namespace listing fails with an exception that is not an
\* ApiException, or lists nothing, or lists one namespace with services
WatchClusters ==
    [namespaces : {OtherError, ApiOk(<<>>), ApiOk(<<NsDev>>)},
     services : {[n \in SeqToSet(NsPool) |->
                    CHOOSE l \in Listings(n) : l.kind = "ok" /\ l.body[1].name = SvcUi]},
     endpoints : {e \in EndpointApis : e.slice.kind = "ok" /\ e.legacy.status = 404}]

WatchInit ==
    /\ config \in WatchConfigs
    /\ pc = "loop"
    /\ namespaces = <<>>
    /\ namespaces_to_scan = <<>>
    /\ ns_idx = 1
    /\ all_services = <<>>
    /\ scanned_namespaces = <<>>
    /\ n_items = 0
    /\ item_idx = 1
    /\ cur_service = None
    /\ discovered_services = <<>>
    /\ result = None
    /\ json_data = None
    /\ nginx_config = None
    /\ api_calls = <<>>
    /\ call \in WatchClusters
    /\ \E m \in MaxIterationsPool :
          ret = Some([iteration |-> 0, max_iterations |-> m, exc |-> "",
                      json_of |-> 0, nginx_of |-> 0])

\* while True: iteration += 1
WatchIterate ==
    /\ pc = "loop"
    /\ Get(ret).iteration < MaxWatchIterations
    /\ ret' = Some([Get(ret) EXCEPT !.iteration = @ + 1])
    /\ pc' = "idle"
    /\ UNCHANGED <<config, namespaces, namespaces_to_scan, ns_idx, all_services,
                   scanned_namespaces, n_items, item_idx, cur_service,
                   discovered_services, result, json_data, nginx_config, api_calls,
                   call>>

\* portal_gen.generate_json_data(result): the file is written, or the call
\* raises and leaves the file as it was
WatchGenerateJson ==
    /\ pc = "json"
    /\ \E outcome \in WriteOutcomes :
          IF outcome = "written"
          THEN /\ json_data' = Some(generate_json_data(Get(result)))
               /\ ret' = Some([Get(ret) EXCEPT !.json_of = Get(ret).iteration])
               /\ pc' = "nginx"
          ELSE /\ pc' = "failed"
               /\ UNCHANGED <<json_data, ret>>
    /\ UNCHANGED <<config, namespaces, namespaces_to_scan, ns_idx, all_services,
                   scanned_namespaces, n_items, item_idx, cur_service,
                   discovered_services, result, nginx_config, api_calls, call>>

\* nginx_gen.generate_nginx_config(result): the file is written, or the call
\* raises and leaves the file as it was
WatchGenerateNginx ==
    /\ pc = "nginx"
    /\ \E outcome \in WriteOutcomes :
          IF outcome = "written"
          THEN /\ nginx_config' = Some(_build_nginx_config(Get(result)))
               /\ ret' = Some([Get(ret) EXCEPT !.nginx_of = Get(ret).iteration])
               /\ pc' = "check"
          ELSE /\ pc' = "failed"
               /\ UNCHANGED <<nginx_config, ret>>
    /\ UNCHANGED <<config, namespaces, namespaces_to_scan, ns_idx, all_services,
                   scanned_namespaces, n_items, item_idx, cur_service,
                   discovered_services, result, json_data, api_calls, call>>

\* max_iterations and iteration >= max_iterations
MaxReached(frame) ==
    Truthy(frame.max_iterations) /\ frame.iteration >= Get(frame.max_iterations)

\* if max_iterations and iteration >= max_iterations: break
WatchCheckMax ==
    /\ pc = "check"
    /\ pc' = IF MaxReached(Get(ret)) THEN "stopped" ELSE "sleep"
    /\ UNCHANGED <<config, namespaces, namespaces_to_scan, ns_idx, all_services,
                   scanned_namespaces, n_items, item_idx, cur_service,
                   discovered_services, result, json_data, nginx_config, api_calls,
                   call, ret>>

\* time.sleep(interval) returns; the cluster may have changed meanwhile
WatchSleep ==
    /\ pc = "sleep"
    /\ pc' = "loop"
    /\ call' \in WatchClusters
    /\ UNCHANGED <<config, namespaces, namespaces_to_scan, ns_idx, all_services,
                   scanned_namespaces, n_items, item_idx, cur_service,
                   discovered_services, result, json_data, nginx_config, api_calls,
                   ret>>

\* KeyboardInterrupt during time.sleep(interval): except KeyboardInterrupt:
\* break
WatchInterrupt ==
    /\ pc = "sleep"
    /\ pc' = "stopped"
    /\ ret' = Some([Get(ret) EXCEPT !.exc = "KeyboardInterrupt"])
    /\ UNCHANGED <<config, namespaces, namespaces_to_scan, ns_idx, all_services,
                   scanned_namespaces, n_items, item_idx, cur_service,
                   discovered_services, result, json_data, nginx_config, api_calls,
                   call>>

\* except Exception as e: logger.exception(...); if config.debug: raise;
\* time.sleep(interval). What the handler raises reaches the handler around
\* the loop: raise when config.log_level == "DEBUG", else sys.exit(1)
WatchFailed ==
    /\ pc = "failed"
    /\ LET debug == ConfigAttr(config, "debug")
           leaving == IF debug.raised THEN debug.exc ELSE "Exception"
       IN IF ~debug.raised /\ ~debug.val
          THEN /\ pc' = "sleep"
               /\ UNCHANGED ret
          ELSE /\ pc' = "exit"
               /\ ret' = Some([Get(ret) EXCEPT !.exc =
                          IF ConfigAttr(config, "log_level").val = "DEBUG"
                          THEN leaving ELSE "SystemExit"])
    /\ UNCHANGED <<config, namespaces, namespaces_to_scan, ns_idx, all_services,
                   scanned_namespaces, n_items, item_idx, cur_service,
                   discovered_services, result, json_data, nginx_config, api_calls,
                   call>>

WatchNext ==
    \/ WatchIterate
    \/ RepeatBegin
    \/ RepeatList
    \/ RepeatProcess
    \/ FinishNamespace
    \/ BuildResult
    \/ WatchGenerateJson
    \/ WatchGenerateNginx
    \/ WatchCheckMax
    \/ WatchSleep
    \/ WatchInterrupt
    \/ WatchFailed

SpecWatch == WatchInit /\ [][WatchNext]_vars

-----------------------------------------------------------------------------
(* service_discovery.py: refresh_service_status. call holds the services    *)
(* passed in, what read_namespaced_service answers for each of them, and    *)
(* what the endpoint APIs answer; ret the position of the loop and          *)
(* refreshed_services                                                       *)

\* get_service_by_name: Some(service) or None, or the exception that leaves
\* the method; except ApiException returns None whatever the status
get_service_by_name(readResp, sliceResp, legacyResp) ==
    IF readResp.kind = "ok"
    THEN LET service == readResp.body
             c == _convert_service(service)
             e == _get_service_endpoints(service, sliceResp, legacyResp)
         IN IF c.raised
            THEN (IF Catches("ApiException", c) THEN Ok(None) ELSE c)
            ELSE IF e.raised
            THEN (IF Catches("ApiException", e) THEN Ok(None) ELSE e)
            ELSE Ok(Some([c.val EXCEPT
                            !.endpoints = e.val,
                            !.endpoint_status = _determine_endpoint_status(e.val)]))
    ELSE LET r == Raise(ExcOf(readResp))
         IN IF Catches("ApiException", r) THEN Ok(None) ELSE r

\* the body of the loop of refresh_service_status for one service: what is
\* appended to refreshed_services
RefreshedService(service, readResp, sliceResp, legacyResp) ==
    LET fresh_service == get_service_by_name(readResp, sliceResp, legacyResp)
    IN IF fresh_service.raised
       THEN (IF Catches("Exception", fresh_service) THEN <<service>> ELSE <<>>)
       ELSE IF ~IsNone(fresh_service.val) THEN <<Get(fresh_service.val)>>
       ELSE <<>>

\* the raw service the API holds under a name of namespace dev
RawOf(name) ==
    CHOOSE r \in CycleRawServices(NsDev) :
        r.name = name /\ ~IsNone(r.cluster_ip) /\ r.cluster_ip # Some("None")

\* the services passed in: discovered earlier, found unhealthy then
RefreshInputs ==
    {[_convert_service(RawOf(name)).val EXCEPT !.endpoint_status = "unhealthy"] :
        name \in {SvcUi, SvcApi}}

\* what read_namespaced_service answers: the service, a service with a port
\* out of range, not found, a server error, or no answer at all
ReadAnswers(service) ==
    {ApiOk(RawOf(service.name)),
     ApiOk(RawService(service.name, service.namespace, None, Some("10.96.0.13"),
                      <<RawPort(None, MAX_PORT + 1, None)>>)),
     ApiError(404), ApiError(500), OtherError}

RefreshCalls ==
    UNION {{[services |-> s, reads |-> r, endpoints |-> e] :
               r \in {q \in [1..Len(s) -> UNION {ReadAnswers(x) : x \in RefreshInputs}] :
                         \A i \in 1..Len(s) : q[i] \in ReadAnswers(s[i])},
               e \in {a \in EndpointApis : a.legacy.kind = "api_error"}} :
           s \in SeqsUpTo(RefreshInputs, MaxServices)}

RefreshInit ==
    /\ CycleIdle
    /\ pc = "refresh"
    /\ result = None
    /\ json_data = None
    /\ nginx_config = None
    /\ call \in RefreshCalls
    /\ ret = Some([idx |-> 1, refreshed_services |-> <<>>])

\* for service in services: one iteration
RefreshService ==
    /\ pc = "refresh"
    /\ Get(ret).idx <= Len(call.services)
    /\ LET i == Get(ret).idx
       IN ret' = Some([idx |-> i + 1,
                       refreshed_services |-> Get(ret).refreshed_services \o
                           RefreshedService(call.services[i], call.reads[i],
                                            call.endpoints.slice,
                                            call.endpoints.legacy)])
    /\ UNCHANGED <<config, pc, namespaces, namespaces_to_scan, ns_idx, all_services,
                   scanned_namespaces, n_items, item_idx, cur_service,
                   discovered_services, result, json_data, nginx_config, api_calls,
                   call>>

\* return refreshed_services
RefreshReturn ==
    /\ pc = "refresh"
    /\ Get(ret).idx > Len(call.services)
    /\ pc' = "done"
    /\ UNCHANGED <<config, namespaces, namespaces_to_scan, ns_idx, all_services,
                   scanned_namespaces, n_items, item_idx, cur_service,
                   discovered_services, result, json_data, nginx_config, api_calls,
                   call, ret>>

RefreshNext == RefreshService \/ RefreshReturn

SpecRefresh == RefreshInit /\ [][RefreshNext]_vars

-----------------------------------------------------------------------------
(* nginx_reloader.py: the handler of the config watcher. call holds the     *)
(* file system event being handled, api_calls the checks and commands run   *)
(* while handling it, each with its outcome                                 *)

\* str.endswith
EndsWith(s, suffix) ==
    /\ Len(s) >= Len(suffix)
    /\ SubSeq(s, Len(s) - Len(suffix) + 1, Len(s)) = suffix

DotConf == <<".", "c", "o", "n", "f">>

ReloadTrigger == <<"n", "g", "i", "n", "x", "-", "r", "e", "l", "o", "a", "d",
                   ".", "t", "r", "i", "g", "g", "e", "r">>

\* src_path.endswith(".conf") or src_path.endswith("nginx-reload.trigger")
IsConfigPath(src_path) ==
    EndsWith(src_path, DotConf) \/ EndsWith(src_path, ReloadTrigger)

\* (mutant) the reload follows whenever the test command returned
TestPassed_when_returned(out) == ~out.raised

\* result.returncode == 0
TestPassed(out) == ~out.raised /\ out.val = 0

\* the paths of the watched directory: two config files, the trigger file
\* and a file whose name ends like it, a backup of a config file, the JSON
\* manifest, a name without the dot
WatchedPaths ==
    {<<"l">> \o DotConf,
     <<"d">> \o DotConf,
     ReloadTrigger,
     <<"x", "-">> \o ReloadTrigger,
     <<"l">> \o DotConf \o <<"~">>,
     <<"s", ".", "j", "s", "o", "n">>,
     <<"c", "o", "n", "f">>}

\* the events watchdog dispatches to the handler
FileSystemEvents ==
    [event_type : {"modified", "created", "deleted", "moved"},
     is_directory : BOOLEAN,
     src_path : WatchedPaths]

\* subprocess.run(..., check=False, timeout=...): a return code, or
\* TimeoutExpired, or the command cannot be started
RunOutcomes == {Ok(0), Ok(1), Raise("TimeoutExpired"), Raise("FileNotFoundError")}

Ran(cmd, out) == [cmd |-> cmd, out |-> out]

ReloaderInit ==
    /\ CycleIdle
    /\ pc = "wait"
    /\ result = None
    /\ json_data = None
    /\ nginx_config = None
    /\ call = None
    /\ ret = None

\* FileSystemEventHandler.dispatch: on_modified is the only method
\* ConfigHandler overrides, the handlers of the other event types do nothing
Dispatch ==
    /\ pc = "wait"
    /\ \E event \in FileSystemEvents :
          /\ call' = Some(event)
          /\ pc' = IF event.event_type = "modified" THEN "on_modified" ELSE "wait"
    /\ api_calls' = <<>>
    /\ UNCHANGED <<config, namespaces, namespaces_to_scan, ns_idx, all_services,
                   scanned_namespaces, n_items, item_idx, cur_service,
                   discovered_services, result, json_data, nginx_config, ret>>

\* on_modified up to the call of _reload_nginx
OnModified ==
    /\ pc = "on_modified"
    /\ pc' = IF Get(call).is_directory THEN "wait"
             ELSE IF IsConfigPath(Get(call).src_path) THEN "pid_file"
             ELSE "wait"
    /\ UNCHANGED <<config, namespaces, namespaces_to_scan, ns_idx, all_services,
                   scanned_namespaces, n_items, item_idx, cur_service,
                   discovered_services, result, json_data, nginx_config, api_calls,
                   call, ret>>

\* if not os.path.exists(pid_file)
CheckPidFile ==
    /\ pc = "pid_file"
    /\ \E exists \in BOOLEAN :
          /\ api_calls' = Append(api_calls, Ran("exists", Ok(exists)))
          /\ pc' = IF exists THEN "test" ELSE "pgrep"
    /\ UNCHANGED <<config, namespaces, namespaces_to_scan, ns_idx, all_services,
                   scanned_namespaces, n_items, item_idx, cur_service,
                   discovered_services, result, json_data, nginx_config, call, ret>>

\* subprocess.run(["pgrep", "-f", "nginx"]): return unless it exits with 0
Pgrep ==
    /\ pc = "pgrep"
    /\ \E out \in RunOutcomes :
          /\ api_calls' = Append(api_calls, Ran("pgrep", out))
          /\ pc' = IF Catches("Exception", out) THEN "wait"
                   ELSE IF out.val = 0 THEN "test"
                   ELSE "wait"
    /\ UNCHANGED <<config, namespaces, namespaces_to_scan, ns_idx, all_services,
                   scanned_namespaces, n_items, item_idx, cur_service,
                   discovered_services, result, json_data, nginx_config, call, ret>>

\* subprocess.run(["nginx", "-t"]); an exception is logged by the handlers of
\* _reload_nginx
TestConfig ==
    /\ pc = "test"
    /\ \E out \in RunOutcomes :
          /\ api_calls' = Append(api_calls, Ran("nginx -t", out))
          /\ pc' = IF Catches("TimeoutExpired", out) \/ Catches("Exception", out)
                   THEN "wait"
                   ELSE IF TestPassed(out) THEN "reload"
                   ELSE "wait"
    /\ UNCHANGED <<config, namespaces, namespaces_to_scan, ns_idx, all_services,
                   scanned_namespaces, n_items, item_idx, cur_service,
                   discovered_services, result, json_data, nginx_config, call, ret>>

\* subprocess.run(["nginx", "-s", "reload"]); its outcome is logged
Reload ==
    /\ pc = "reload"
    /\ \E out \in RunOutcomes :
          api_calls' = Append(api_calls, Ran("nginx -s reload", out))
    /\ pc' = "wait"
    /\ UNCHANGED <<config, namespaces, namespaces_to_scan, ns_idx, all_services,
                   scanned_namespaces, n_items, item_idx, cur_service,
                   discovered_services, result, json_data, nginx_config, call, ret>>

ReloaderNext ==
    \/ Dispatch
    \/ OnModified
    \/ CheckPidFile
    \/ Pgrep
    \/ TestConfig
    \/ Reload

SpecReloader == ReloaderInit /\ [][ReloaderNext]_vars

-----------------------------------------------------------------------------
(* Properties *)

Last(s) == s[Len(s)]

NoDuplicates(s) == \A i, j \in 1..Len(s) : s[i] = s[j] => i = j

\* C1: in the result of every discovery cycle, whatever the skip set and
\* whichever namespaces fail while being scanned, namespaces_scanned and
\* namespaces_skipped are disjoint and together are exactly the namespaces the
\* cluster listed at the start of the cycle.
C1_Partition ==
    ~IsNone(result) =>
        LET scanned == Get(result).namespaces_scanned
            skipped == Get(result).namespaces_skipped
        IN /\ SeqToSet(scanned) \cap SeqToSet(skipped) = {}
           /\ SeqToSet(scanned) \cup SeqToSet(skipped) = SeqToSet(namespaces)
           /\ Len(scanned) + Len(skipped) = Len(namespaces)

\* a cycle over two namespaces outside the skip set, one scanned and one whose
\* listing failed
C1_Witness ==
    /\ ~IsNone(result)
    /\ Len(Get(result).namespaces_scanned) > 0
    /\ \E i \in 1..Len(Get(result).namespaces_skipped) :
           Get(result).namespaces_skipped[i] \notin SeqToSet(config.skip_namespaces)

\* C2 (as stated): a namespace whose service listing raised an API error is
\* in namespaces_skipped and not in namespaces_scanned, and the loop goes on
\* to the next namespace of the scan set.  The state is the one right after
\* the iteration of that namespace; scanned_namespaces only grows from there
\* and is what the result reports.
C2_FailedListingSkipped ==
    (pc = "scan" /\ Len(api_calls) = 1 /\ api_calls[1].api = "services"
        /\ api_calls[1].status >= 400)
    => /\ api_calls[1].namespace \notin SeqToSet(scanned_namespaces)
       /\ api_calls[1].namespace \in
              SeqToSet(skipped_namespaces(namespaces, scanned_namespaces))
       /\ namespaces_to_scan[ns_idx - 1] = api_calls[1].namespace

\* C3: every ServiceDiscoveryResult has total_services = len(services) and
\* healthy/unhealthy/frontend counters equal to the number of services with
\* that status or flag, whatever counters the caller passed, and the
\* generators read and report the same numbers.
C3_CountersMatchServices ==
    ~IsNone(result) =>
        LET r == Get(result)
            N(P(_)) == Cardinality({i \in 1..Len(r.services) : P(r.services[i])})
            counters == [total_services |-> Len(r.services),
                         healthy_services |->
                             N(LAMBDA s : s.endpoint_status = "healthy"),
                         unhealthy_services |->
                             N(LAMBDA s : s.endpoint_status = "unhealthy"),
                         frontend_services |-> N(LAMBDA s : s.is_frontend)]
        IN /\ \A f \in DOMAIN counters : r[f] = counters[f]
           /\ ~IsNone(json_data) =>
                  \A f \in DOMAIN counters : Get(json_data).meta[f] = counters[f]

\* a result of two services, one of status unknown, built by a caller who
\* passed wrong counters, after both generators have read it
C3_Witness ==
    /\ pc = "done"
    /\ ~IsNone(result) /\ ~IsNone(json_data)
    /\ Len(Get(result).services) = 2
    /\ \E i \in 1..2 : Get(result).services[i].endpoint_status = "unknown"
    /\ \E i \in 1..2 : Get(result).services[i].is_frontend
    /\ call.total_services = Some(0)
    /\ call.healthy_services = Some(7)
    /\ call.frontend_services = Some(7)

\* C4: the status derived from a resolved endpoint list is healthy exactly
\* when at least one endpoint is ready, unhealthy otherwise (empty list, or
\* no ready endpoint), and never unknown.
C4_HealthPolicy ==
    pc = "resolved" =>
        LET endpoints == ret.endpoints.val
            any_ready == \E i \in 1..Len(endpoints) : endpoints[i].ready
        IN /\ ret.endpoint_status = "healthy" <=> any_ready
           /\ ~any_ready => ret.endpoint_status = "unhealthy"
           /\ ret.endpoint_status # "unknown"

\* a resolved list with a ready and a not-ready endpoint
C4_Witness ==
    /\ pc = "resolved"
    /\ \E i \in 1..Len(ret.endpoints.val) : ret.endpoints.val[i].ready
    /\ \E i \in 1..Len(ret.endpoints.val) : ~ret.endpoints.val[i].ready

\* the services the cycle has collected so far
Collected == all_services \o discovered_services

\* a step of the loop over services.items
ProcessServiceStep ==
    pc = "services" /\ pc' = "services" /\ item_idx' = item_idx + 1

\* C5: whenever the endpoint lookups are issued for a service, whatever the
\* two lookups answer, the resolver returns a list (the service is appended
\* with it, which an exception out of the resolver would prevent), the list
\* is empty when every lookup issued failed, and the loop over the
\* namespace's services continues.
C5_ResolverNeverFails ==
    [][(pc = "services" /\ api_calls' # <<>>) =>
          /\ ProcessServiceStep
          /\ Len(discovered_services') = Len(discovered_services) + 1
          /\ Prefix(discovered_services', Len(discovered_services))
                 = discovered_services
          /\ Last(discovered_services').name = Get(cur_service').name
          /\ Last(discovered_services').namespace = Get(cur_service').namespace
          /\ (\A i \in 1..Len(api_calls') : api_calls'[i].status # 200)
                 => Last(discovered_services').endpoints = <<>>
          /\ (\E i \in 1..Len(api_calls') : api_calls'[i].status = 200)
                 => Len(Last(discovered_services').endpoints) > 0]_vars

\* both lookups failed, one without an HTTP answer; the service was appended
\* with no endpoints and another service of the namespace is still to come
C5_Witness ==
    /\ pc = "services"
    /\ Len(api_calls) = 2
    /\ api_calls[1].status = 0
    /\ api_calls[2].status # 200
    /\ Len(discovered_services) > 0
    /\ Last(discovered_services).name = Get(cur_service).name
    /\ Last(discovered_services).endpoints = <<>>
    /\ item_idx <= n_items

\* C6: when the EndpointSlice API answers 404, the resolver returns the
\* endpoints (ip, port, ready, hostname) that _get_endpoints_legacy yields for
\* the same service and the same legacy endpoints object.
C6_FallbackEqualsLegacy ==
    (pc \in {"status", "resolved"} /\ call.sliceResp = ApiError(404)) =>
        LET direct == _get_endpoints_legacy(call.service, call.legacyResp)
        IN ~direct.raised =>
              /\ ~ret.endpoints.raised
              /\ ret.endpoints.val = direct.val

\* 404 from the EndpointSlice API and a legacy object with a ready and a
\* not-ready address, one of them with a hostname, on two ports
C6_Witness ==
    /\ pc = "resolved"
    /\ call.sliceResp = ApiError(404)
    /\ call.legacyResp.kind = "ok"
    /\ Len(ret.endpoints.val) = 4
    /\ \E i \in 1..4 : ret.endpoints.val[i].ready
    /\ \E i \in 1..4 : ~ret.endpoints.val[i].ready
    /\ \E i \in 1..4 : ~IsNone(ret.endpoints.val[i].hostname)

\* both endpoint lookups of the step's service were answered 403
LookupsForbidden(calls) ==
    /\ Len(calls) = 2
    /\ \A i \in 1..2 : calls[i].status = 403

\* what the cycle does with a service whose lookups are answered 403, but
\* for the status it gets: it is appended to the services collected, the loop
\* continues, nothing collected is dropped, and the result holds what was
\* collected
ForbiddenLookupsKeepService(status) ==
    /\ (pc = "services" /\ LookupsForbidden(api_calls')) =>
          /\ ProcessServiceStep
          /\ Len(discovered_services') = Len(discovered_services) + 1
          /\ Last(discovered_services').name = Get(cur_service').name
          /\ Last(discovered_services').namespace = Get(cur_service').namespace
          /\ Last(discovered_services').endpoint_status = status
    /\ Prefix(Collected', Len(Collected)) = Collected
    /\ ~IsNone(result') => Get(result').services = Collected'

\* C7 (as stated): when the endpoint lookups of a service fail with 403,
\* the cycle goes on and the service is in the result with
\* endpoint_status = unknown.
C7_ForbiddenIsUnknown == [][ForbiddenLookupsKeepService("unknown")]_vars

\* C7 (amended): when the endpoint lookups of a service fail with 403, the
\* cycle goes on and the service is in the result with no endpoints and
\* endpoint_status = unhealthy.
C7_ForbiddenIsUnhealthy ==
    [][/\ ForbiddenLookupsKeepService("unhealthy")
       /\ (pc = "services" /\ LookupsForbidden(api_calls'))
              => Last(discovered_services').endpoints = <<>>]_vars

\* both lookups of the service just processed were answered 403 and the
\* service was appended as unhealthy
C7_Witness ==
    /\ pc = "services"
    /\ LookupsForbidden(api_calls)
    /\ Len(discovered_services) > 0
    /\ Last(discovered_services).name = Get(cur_service).name
    /\ Last(discovered_services).endpoint_status = "unhealthy"

\* headless, as the claim puts it: cluster_ip null or the literal "None"
HeadlessClusterIp(cluster_ip) == IsNone(cluster_ip) \/ Get(cluster_ip) = "None"

\* C8: with include_headless_services = false no service collected or
\* reported has cluster_ip null or "None", and processing a headless service
\* issues no endpoint lookup; with include_headless_services = true a valid
\* headless service is appended to the services of its namespace.
C8_HeadlessFiltering ==
    [][/\ ~config'.include_headless_services =>
             /\ \A i \in 1..Len(Collected') :
                    ~HeadlessClusterIp(Collected'[i].cluster_ip)
             /\ ~IsNone(result') =>
                    \A i \in 1..Len(Get(result').services) :
                        ~HeadlessClusterIp(Get(result').services[i].cluster_ip)
       /\ (ProcessServiceStep /\ HeadlessClusterIp(Get(cur_service').cluster_ip)) =>
             IF ~config.include_headless_services
             THEN /\ api_calls' = <<>>
                  /\ discovered_services' = discovered_services
             ELSE Len(Get(cur_service').name) > 0 =>
                  /\ Len(discovered_services') = Len(discovered_services) + 1
                  /\ Last(discovered_services').name = Get(cur_service').name
                  /\ Last(discovered_services').cluster_ip
                         = Get(cur_service').cluster_ip
                  /\ ~IsNone(result') => Get(result').services = Collected']_vars

\* a result that holds a service whose cluster_ip is the literal "None"
C8_Witness ==
    /\ ~IsNone(result)
    /\ config.include_headless_services
    /\ \E i \in 1..Len(Get(result).services) :
           Get(result).services[i].cluster_ip = Some("None")

\* C9 (as stated): in the result of a cycle, is_frontend of a service says
\* whether its name matches a configured pattern, and frontend_services is
\* the number of services with a matching name.
C9_FrontendByName ==
    ~IsNone(result) =>
        LET services == Get(result).services
        IN /\ \A i \in 1..Len(services) :
                  services[i].is_frontend
                      = is_frontend_service(config, services[i].name)
           /\ Get(result).frontend_services =
                  Cardinality({i \in 1..Len(services) :
                                  is_frontend_service(config, services[i].name)})

\* C10 (as stated): the JSON record list and the nginx location list hold at
\* most one record per (namespace, service, port).
C10_OneRecordPerTriple ==
    /\ ~IsNone(json_data) =>
           NoDuplicates([i \in 1..Len(Get(json_data).services) |->
               LET e == Get(json_data).services[i]
               IN <<e.namespace, e.service, e.port>>])
    /\ ~IsNone(nginx_config) =>
           NoDuplicates([i \in 1..Len(Get(nginx_config)) |->
               Get(nginx_config)[i].service_dns])

\* the flattened view of a result: the (namespace, service, port) of the
\* records of the JSON manifest
FlatView(res) ==
    LET records == generate_json_data(res).services
    IN {<<records[i].namespace, records[i].service, records[i].port>> :
            i \in 1..Len(records)}

\* C11: two calls of discover_services on one object against an unchanged
\* cluster and configuration return results with the same flattened
\* (namespace, service, port) record set; the second result equals the first
\* in every field the model carries (it has no timestamps).
C11_Idempotent ==
    (pc = "json" /\ ~IsNone(ret)) =>
        /\ FlatView(Get(result)) = FlatView(Get(ret))
        /\ Get(result) = Get(ret)

\* a second result with records, of a cluster where one listing fails
C11_Witness ==
    /\ pc = "json"
    /\ ~IsNone(ret)
    /\ Cardinality(FlatView(Get(result))) >= 2
    /\ Len(Get(result).namespaces_skipped) > 0
    /\ Len(Get(result).namespaces_scanned) > 0

\* a raw service record passes validation: name and namespace not empty,
\* every port in 1..65535
RawValid(raw) ==
    /\ Len(raw.name) > 0
    /\ Len(raw.namespace) > 0
    /\ \A i \in 1..Len(raw.ports) : raw.ports[i].port \in 1..65535

\* the <<namespace, name, cluster_ip>> of the records of a listing that are
\* valid and pass the headless filter, in the order of the listing
KeptOf(cfg, items) ==
    LET Kept(raw) == RawValid(raw)
                        /\ (cfg.include_headless_services
                               \/ ~HeadlessClusterIp(raw.cluster_ip))
        kept == SelectSeq(items, Kept)
    IN [i \in 1..Len(kept) |-> <<kept[i].namespace, kept[i].name, kept[i].cluster_ip>>]

\* the <<namespace, name, cluster_ip>> of the services a result holds for a
\* namespace, in the order of the result
ServicesOf(res, namespace) ==
    LET InNs(s) == s.namespace = namespace
        in_ns == SelectSeq(res.services, InNs)
    IN [i \in 1..Len(in_ns) |-> <<in_ns[i].namespace, in_ns[i].name, in_ns[i].cluster_ip>>]

\* C12: a record that fails validation (empty name, empty namespace, a port
\* outside 1..65535) is dropped alone: a namespace whose listing succeeded is
\* scanned, and the result holds for it exactly the valid records of the
\* listing (those the headless filter lets through), before and after the
\* bad one, in the order of the listing.
C12_OnlyBadRecordDropped ==
    ~IsNone(result) =>
        \A k \in 1..Len(namespaces_to_scan) :
            LET ns == namespaces_to_scan[k]
            IN call.services[ns].kind = "ok" =>
                  /\ ns \in SeqToSet(Get(result).namespaces_scanned)
                  /\ ServicesOf(Get(result), ns) = KeptOf(config, call.services[ns].body)
                  /\ ServicesOf(Get(result), <<>>) = <<>>

\* a result that holds the services listed before and after a record with a
\* port out of range, and the headless service listed between a record
\* without a name and one without a namespace
C12_Witness ==
    /\ ~IsNone(result)
    /\ \E ns \in SeqToSet(Get(result).namespaces_scanned) :
           ServicesOf(Get(result), ns) = <<<<ns, SvcUi, Some("10.96.0.10")>>,
                                           <<ns, SvcApi, Some("10.96.0.11")>>>>
    /\ \E ns \in SeqToSet(Get(result).namespaces_scanned) :
           ServicesOf(Get(result), ns) = <<<<ns, SvcApi, Some("None")>>>>

\* C13: every service of a result has a name and a namespace that are not
\* empty and ports in 1..65535, and so has every endpoint it carries; a
\* record or an endpoint with a port outside the range is rejected, it does
\* not appear with another port.
C13_PortsInRange ==
    ~IsNone(result) =>
        \A i \in 1..Len(Get(result).services) :
            LET s == Get(result).services[i]
            IN /\ Len(s.name) > 0
               /\ Len(s.namespace) > 0
               /\ \A p \in 1..Len(s.ports) : s.ports[p].port \in 1..65535
               /\ \A e \in 1..Len(s.endpoints) : s.endpoints[e].port \in 1..65535
               /\ s.name # SvcDb
               /\ \A e \in 1..Len(s.endpoints) : s.endpoints[e].ip # "10.244.0.9"

\* a result for a cluster whose EndpointSlice carries a port out of range,
\* from a namespace that lists a record with a port out of range
C13_Witness ==
    /\ ~IsNone(result)
    /\ call.endpoints.slice.kind = "ok"
    /\ \E s \in 1..Len(call.endpoints.slice.body) :
          \E p \in 1..Len(call.endpoints.slice.body[s].ports) :
              call.endpoints.slice.body[s].ports[p].port \notin 1..65535
    /\ \E k \in 1..Len(Get(result).namespaces_scanned) :
          LET listing == call.services[Get(result).namespaces_scanned[k]]
          IN /\ listing.kind = "ok"
             /\ \E i \in 1..Len(listing.body) :
                   \E p \in 1..Len(listing.body[i].ports) :
                       listing.body[i].ports[p].port \notin 1..65535
    /\ \E i \in 1..Len(Get(result).services) :
           Len(Get(result).services[i].endpoints) > 0

\* the connectivity probe of the run fails with 401 or 403: the
\* configuration was found and get_api_resources, or list_namespace after
\* it, is answered 401 or 403
ProbeDenied ==
    /\ call.config_source # "none"
    /\ \/ call.resources.status \in {401, 403}
       \/ call.resources.kind = "ok" /\ call.probe.status \in {401, 403}

\* C14: in a run whose connectivity probe fails with 401 or 403, initialize
\* raises (SystemExit), the client is never marked initialized, and no
\* discovery cycle and no generator ever runs.
C14_DeniedProbeAbortsRun ==
    ProbeDenied =>
        /\ pc \in {"start", "exit"}
        /\ ~IsNone(ret) =>
              /\ pc = "exit"
              /\ Get(ret).raised = "SystemExit"
              /\ ~Get(ret).client._is_initialized
        /\ namespaces = <<>> /\ api_calls = <<>> /\ all_services = <<>>
        /\ IsNone(result) /\ IsNone(json_data) /\ IsNone(nginx_config)

\* the run has ended on a 403 of list_namespace, after get_api_resources
\* was answered
C14_Witness ==
    /\ pc = "exit"
    /\ call.resources.kind = "ok"
    /\ call.probe.status = 403
    /\ Get(ret).client._core_v1
    /\ ~Get(ret).client._is_initialized

\* C15: once the process is interrupted while a discovery cycle is in
\* progress, the cycle is over: no further namespace is processed, no
\* result is built from what was scanned, and no generator runs.
C15_InterruptDiscardsPartialScan ==
    (~IsNone(ret) /\ Get(ret).pc \in {"scan", "services"}) =>
        /\ pc = "stopped"
        /\ ns_idx = Get(ret).ns_idx
        /\ IsNone(result)
        /\ IsNone(json_data)
        /\ IsNone(nginx_config)

\* the interrupt arrived in the loop over the items of the second namespace,
\* with services of the first one already collected
C15_Witness ==
    /\ ~IsNone(ret)
    /\ Get(ret).pc = "services"
    /\ pc = "stopped"
    /\ ns_idx = 2
    /\ item_idx <= n_items
    /\ Len(all_services) > 0
    /\ Len(scanned_namespaces) > 0

\* some configured pattern is found in the name, letter case ignored
SomePatternMatches(patterns, name) ==
    \E p \in SeqToSet(patterns) : re_search(p, name)

\* the classifier that produced ret, applied under another configuration
ClassifiedAgain(cfg) ==
    IF Get(ret).fn = "is_frontend_service"
    THEN is_frontend_service(cfg, Get(call))
    ELSE is_frontend_port(cfg, Get(call))

\* C16 (as stated): is_frontend_service and is_frontend_port answer true
\* exactly when some configured pattern matches the name.
C16_TrueIffSomePatternMatches ==
    pc = "classified" =>
        Get(ret).val = SomePatternMatches(config.frontend_patterns, Get(call))

\* C16 (amended): both classifiers answer true exactly when some configured
\* pattern matches the name, except that is_frontend_port answers false for
\* an empty port name whatever the patterns; an empty pattern list gives
\* false, and the answer is the same for every ordering of the patterns.
C16_FrontendMatching ==
    pc = "classified" =>
        /\ Get(ret).val =
              (/\ SomePatternMatches(config.frontend_patterns, Get(call))
               /\ Get(ret).fn = "is_frontend_port" => Len(Get(call)) > 0)
        /\ Len(config.frontend_patterns) = 0 => ~Get(ret).val
        /\ \A q \in PermutationsOf(config.frontend_patterns) :
              ClassifiedAgain([config EXCEPT !.frontend_patterns = q]) = Get(ret).val

\* a service name matched, in another letter case, by the second pattern only
C16_Witness ==
    /\ pc = "classified"
    /\ Get(ret).fn = "is_frontend_service"
    /\ Get(ret).val
    /\ Len(config.frontend_patterns) = 2
    /\ ~re_search(config.frontend_patterns[1], Get(call))
    /\ Len(config.frontend_patterns[2]) > 0
    /\ Get(call) # LowerStr(config.frontend_patterns[2])

\* C17 (as stated): every (service, port) record of the JSON manifest carries
\* an is_frontend flag of its own, true exactly when the service name or the
\* name of that port matches a configured frontend pattern.
C17_PortFlagByPattern ==
    ~IsNone(json_data) =>
        \A i \in 1..Len(Get(json_data).services) :
            LET entry == Get(json_data).services[i]
            IN entry.is_frontend =
                  (\/ is_frontend_service(config, entry.service)
                   \/ /\ ~IsNone(entry.port_name)
                      /\ is_frontend_port(config, Get(entry.port_name)))

\* the position of a name in a list without repetitions
IndexOf(s, x) == CHOOSE i \in 1..Len(s) : s[i] = x

\* C18: the namespaces to scan are exactly the listed namespaces whose name
\* is not, letter for letter, in the skip list, in the order of the listing;
\* no namespace of the skip list is scanned and no service of such a
\* namespace is in the result.
C18_SkipListFiltered ==
    LET skip == SeqToSet(config.skip_namespaces)
    IN /\ pc # "idle" =>
           /\ SeqToSet(namespaces_to_scan) = SeqToSet(namespaces) \ skip
           /\ NoDuplicates(namespaces_to_scan)
           /\ \A i, j \in 1..Len(namespaces_to_scan) :
                  i < j => IndexOf(namespaces, namespaces_to_scan[i])
                              < IndexOf(namespaces, namespaces_to_scan[j])
       /\ SeqToSet(scanned_namespaces) \cap skip = {}
       /\ ~IsNone(result) =>
           /\ SeqToSet(Get(result).namespaces_scanned) \cap skip = {}
           /\ \A i \in 1..Len(Get(result).services) :
                  Get(result).services[i].namespace \notin skip

\* the listing is not in alphabetical order, one listed namespace is
\* skipped, one differs from a skip entry by letter case only and is scanned
\* with its services
C18_Witness ==
    /\ ~IsNone(result)
    /\ namespaces = <<NsKube, NsDev>>
    /\ config.skip_namespaces = << <<"D", "E", "V">>, NsKube >>
    /\ Get(result).namespaces_scanned = <<NsDev>>
    /\ Len(Get(result).services) > 0

\* C19: a cycle fails only when the namespace listing fails with something
\* other than an API error; a cycle that scanned no namespace returns a
\* result without services and with all counters zero, from which the JSON
\* generator emits no record and the nginx generator no location.
C19_EmptyCycleIsValid ==
    /\ pc = "failed" =>
           /\ Len(api_calls) = 1
           /\ api_calls[1].api = "namespaces"
           /\ api_calls[1].status = 0
    /\ (~IsNone(result) /\ Len(Get(result).namespaces_scanned) = 0) =>
           /\ Len(Get(result).services) = 0
           /\ Get(result).total_services = 0
           /\ Get(result).healthy_services = 0
           /\ Get(result).unhealthy_services = 0
           /\ Get(result).frontend_services = 0
           /\ ~IsNone(json_data) =>
                  /\ Len(Get(json_data).services) = 0
                  /\ Get(json_data).meta.total_services = 0
           /\ ~IsNone(nginx_config) => Len(Get(nginx_config)) = 0
           /\ pc \in {"json", "nginx", "done"}

\* the namespaces were listed, none of them was scanned, and both
\* generators have run on the result
C19_Witness ==
    /\ pc = "done"
    /\ Len(namespaces) > 0
    /\ Len(namespaces_to_scan) > 0
    /\ Len(Get(result).namespaces_scanned) = 0
    /\ Len(Get(result).namespaces_skipped) = Len(namespaces)
    /\ Get(json_data).services = <<>>
    /\ Get(nginx_config) = <<>>

\* C20 (as stated): the configuration from_env builds when SKIP_NAMESPACES
\* is unset or empty and the JSON config has no namespaces-to-skip entry
\* skips kube-system and kube-public, and a cycle run with it does not scan
\* them.
C20_DefaultsWhenNothingConfigured ==
    (/\ pc # "start"
     /\ call.env.SKIP_NAMESPACES \in {None, Some(<<>>)}
     /\ IsNone(call.json_config.namespaces_to_skip)) =>
        /\ KubeSystem \in SeqToSet(config.skip_namespaces)
        /\ KubePublic \in SeqToSet(config.skip_namespaces)
        /\ {KubeSystem, KubePublic} \cap SeqToSet(namespaces_to_scan) = {}

\* the calls of api the last operation made
CallsOf(calls, api) == {i \in 1..Len(calls) : calls[i].api = api}

SliceProduced ==
    LET s == _get_endpoint_slices(call.service, call.sliceResp)
    IN IF s.raised THEN <<>> ELSE s.val

\* C22: the resolver always queries the EndpointSlice API first, and the
\* legacy Endpoints API exactly when the EndpointSlice attempt produced no
\* endpoint (it failed, with a 404 or otherwise, or found none); when it
\* produced endpoints they are the resolver's result.
C22_LegacyOnlyAsFallback ==
    pc \in {"status", "resolved"} =>
        /\ api_calls[1].api = "endpoint_slices"
        /\ Len(api_calls) = IF Len(SliceProduced) = 0 THEN 2 ELSE 1
        /\ Len(api_calls) = 2 => api_calls[2].api = "endpoints"
        /\ Len(SliceProduced) > 0 =>
               /\ ~ret.endpoints.raised
               /\ ret.endpoints.val = SliceProduced

\* the EndpointSlice API gave endpoints and the legacy object, which holds
\* endpoints as well, was not read
C22_Witness ==
    /\ pc = "resolved"
    /\ Len(api_calls) = 1
    /\ Len(ret.endpoints.val) > 0
    /\ call.legacyResp.kind = "ok"
    /\ ~_get_endpoints_legacy(call.service, call.legacyResp).raised
    /\ Len(_get_endpoints_legacy(call.service, call.legacyResp).val) > 0

\* the ports an address is paired with: those the slice or subset declares,
\* or those of the service when it declares none
PairedPorts(service, declared) ==
    IF Len(declared) > 0 THEN declared ELSE service.ports

\* the endpoints of a list with this address, port and readiness
EndpointsAt(endpoints, ip, port, ready) ==
    {i \in 1..Len(endpoints) :
        /\ endpoints[i].ip = ip
        /\ endpoints[i].port = port
        /\ endpoints[i].ready = ready}

\* the (slice, endpoint, address, port) positions of an EndpointSlice answer
\* that hold this address and port
SlicePositions(service, slices, ip, port) ==
    {q \in UNION {UNION {UNION {{<<k, e, a, p>> :
                p \in 1..Len(PairedPorts(service, slices[k].ports))} :
            a \in 1..Len(slices[k].endpoints[e].addresses)} :
        e \in 1..Len(slices[k].endpoints)} :
    k \in 1..Len(slices)} :
        /\ slices[q[1]].endpoints[q[2]].addresses[q[3]] = ip
        /\ PairedPorts(service, slices[q[1]].ports)[q[4]].port = port}

\* the (subset, address, port) positions of a legacy answer that hold this
\* address and port, in addresses or in not_ready_addresses
SubsetPositions(service, subsets, ip, port, ready) ==
    LET Addrs(k) == IF ready THEN subsets[k].addresses
                    ELSE subsets[k].not_ready_addresses
    IN {q \in UNION {UNION {{<<k, a, p>> :
                p \in 1..Len(PairedPorts(service, subsets[k].ports))} :
            a \in 1..Len(Addrs(k))} :
        k \in 1..Len(subsets)} :
            /\ Addrs(q[1])[q[2]].ip = ip
            /\ PairedPorts(service, subsets[q[1]].ports)[q[3]].port = port}

\* the addresses and ports of the model
AllIps ==
    SeqToSet(IpPool) \cup {ReadyAddresses[i].ip : i \in 1..Len(ReadyAddresses)}
        \cup {NotReadyAddresses[i].ip : i \in 1..Len(NotReadyAddresses)}

AllPorts == {0, 80, 443, 8080, 9090}

C24_UnsetReadinessIsReady ==
    (/\ pc \in {"status", "resolved"}
     /\ call.sliceResp.kind = "ok"
     /\ \A k \in 1..Len(call.sliceResp.body) :
            LET ports == PairedPorts(call.service, call.sliceResp.body[k].ports)
            IN \A p \in 1..Len(ports) : validate_port(ports[p].port)) =>
        LET s == _get_endpoint_slices(call.service, call.sliceResp)
            slices == call.sliceResp.body
            Unset(e) == \/ IsNone(e.conditions)
                        \/ IsNone(Get(e.conditions).ready)
        IN /\ ~s.raised
           /\ \A k \in 1..Len(slices) : \A e \in 1..Len(slices[k].endpoints) :
                  Unset(slices[k].endpoints[e]) =>
                      \A a \in 1..Len(slices[k].endpoints[e].addresses) :
                          \A p \in 1..Len(PairedPorts(call.service, slices[k].ports)) :
                              EndpointsAt(s.val, slices[k].endpoints[e].addresses[a],
                                  PairedPorts(call.service, slices[k].ports)[p].port,
                                  TRUE) # {}

\* C25: in watch mode, an iteration whose discovery or generation raised an
\* exception other than an interrupt does not end the loop: the handler
\* sleeps for the interval, after which the next iteration starts
C25_FailedIterationSleeps ==
    [][pc = "failed" => pc' = "sleep"]_vars

\* the frame of watch
WatchFrame == Get(ret)

\* watch has returned or the process has exited
WatchEnded == pc \in {"stopped", "exit"}

\* C26: with max_iterations = N > 0 the loop starts at most N discovery
\* cycles, succeeding or failing, and then stops; with max_iterations 0 or
\* unset the loop does not stop on its own: it ends on an interrupt only
C26_MaxIterationsBoundsCycles ==
    /\ Truthy(WatchFrame.max_iterations) =>
           WatchFrame.iteration <= Get(WatchFrame.max_iterations)
    /\ ~Truthy(WatchFrame.max_iterations) /\ WatchEnded =>
           WatchFrame.exc = "KeyboardInterrupt"

\* the iteration of watch is over: the loop sleeps, or watch has ended
IterationOver == pc = "sleep" \/ WatchEnded

\* C29: at the end of every watch iteration, successful or failed, the JSON
\* manifest and the nginx locations file of the output directory were written
\* from the result of the same discovery cycle, and no file is written from
\* a cycle whose discovery has not returned
C29_FilesFromSameResult ==
    /\ IterationOver => WatchFrame.json_of = WatchFrame.nginx_of
    /\ WatchFrame.json_of > 0 => ~IsNone(result)
    /\ WatchFrame.nginx_of > 0 => ~IsNone(result)

\* what C27 states for one input service and the answer to its read
RefreshStated(service, readResp) ==
    LET fresh == get_service_by_name(readResp, call.endpoints.slice,
                                     call.endpoints.legacy)
    IN IF readResp.kind = "ok" /\ ~fresh.raised /\ ~IsNone(fresh.val)
       THEN <<Get(fresh.val)>>
       ELSE IF readResp.kind = "api_error" /\ readResp.status = 404 THEN <<>>
       ELSE <<service>>

\* C27: refresh_service_status returns, for each input service in input
\* order, the freshly read service when the read succeeds, nothing when the
\* service no longer exists (404), and the original service when the refresh
\* fails for any other reason, a non-404 API error included
C27_RefreshKeepsOnFailure ==
    pc = "done" =>
        Get(ret).refreshed_services =
            Flatten([i \in 1..Len(call.services) |->
                        RefreshStated(call.services[i], call.reads[i])])

\* the location _build_nginx_config creates for a (service, port) pair
LocationOf(service, port) ==
    [path |-> _generate_location_path(service, port),
     service_dns |-> _generate_service_dns(service, port)]

\* the configuration holds the location of the pair
HasLocation(locations, service, port) ==
    \E i \in 1..Len(locations) : locations[i] = LocationOf(service, port)

\* the manifest holds an entry of the pair with the status of the service
HasEntry(entries, service, port) ==
    \E i \in 1..Len(entries) :
        /\ entries[i].namespace = service.namespace
        /\ entries[i].service = service.name
        /\ entries[i].port = port.port
        /\ entries[i].endpoint_status = service.endpoint_status

\* a record of the same service, found healthy, is in the result
HealthyTwin(services, service) ==
    \E j \in 1..Len(services) :
        /\ services[j].namespace = service.namespace
        /\ services[j].name = service.name
        /\ services[j].endpoint_status = "healthy"

\* C28: the nginx configuration built from a discovery result holds the
\* location of a (service, port) pair if and only if the service is healthy:
\* every location belongs to a port of a healthy service, every port of a
\* healthy service has its location, a service that is unhealthy or unknown
\* (and is not also in the result as healthy) has none, and the JSON manifest
\* lists the ports of every service whatever its status
C28_LocationsIffHealthy ==
    pc = "done" =>
        LET services == Get(result).services
            locations == Get(nginx_config)
            entries == Get(json_data).services
        IN /\ \A i \in 1..Len(locations) :
                  \E j \in 1..Len(services) : \E p \in 1..Len(services[j].ports) :
                      /\ services[j].endpoint_status = "healthy"
                      /\ locations[i] = LocationOf(services[j], services[j].ports[p])
           /\ \A j \in 1..Len(services) : \A p \in 1..Len(services[j].ports) :
                  /\ services[j].endpoint_status = "healthy" =>
                         HasLocation(locations, services[j], services[j].ports[p])
                  /\ services[j].endpoint_status # "healthy"
                         /\ ~HealthyTwin(services, services[j]) =>
                         ~HasLocation(locations, services[j], services[j].ports[p])
                  /\ HasEntry(entries, services[j], services[j].ports[p])

\* a result of one healthy service and one of unknown status: one location,
\* two entries of the manifest
C28_Witness ==
    /\ pc = "done"
    /\ Len(Get(nginx_config)) = 1
    /\ \E j \in 1..Len(Get(result).services) :
           Get(result).services[j].endpoint_status = "unknown"
    /\ Len(Get(json_data).services) = 2

\* the positions of a command in the log of the event being handled
RanAt(cmd) == {i \in 1..Len(api_calls) : api_calls[i].cmd = cmd}

\* C30: the config watcher runs `nginx -s reload` only for a modification
\* event on a path that is not a directory and ends in .conf or
\* nginx-reload.trigger, only when nginx is running (the PID file exists or
\* pgrep found a matching process), and only after `nginx -t` exited with
\* status 0 while the same event was handled
C30_ReloadOnlyWhenTested ==
    \A r \in RanAt("nginx -s reload") :
        /\ Get(call).event_type = "modified"
        /\ ~Get(call).is_directory
        /\ \/ EndsWith(Get(call).src_path, DotConf)
           \/ EndsWith(Get(call).src_path, ReloadTrigger)
        /\ \/ \E i \in RanAt("exists") : i < r /\ api_calls[i].out = Ok(TRUE)
           \/ \E i \in RanAt("pgrep") : i < r /\ api_calls[i].out = Ok(0)
        /\ \E i \in RanAt("nginx -t") : i < r /\ api_calls[i].out = Ok(0)

\* the trigger file was modified, the PID file is missing, pgrep found a
\* process, the test passed and the reload ran
C30_Witness ==
    /\ pc = "wait"
    /\ ~IsNone(call)
    /\ Get(call).src_path = ReloadTrigger
    /\ Len(api_calls) = 4
    /\ api_calls[1].out = Ok(FALSE)
    /\ api_calls[4].cmd = "nginx -s reload"

=============================================================================
